---- MODULE Spec2Model ----
(***************************************************************************)
(* A model of the moderation core of spisdil_moder_bot: the rule service   *)
(* with its registry and store, the message batcher, the scheduler, the    *)
(* tiered pipeline and the punishment aggregator.                          *)
(*                                                                         *)
(* The event loop is cooperative: a coroutine runs atomically from one     *)
(* suspension point (an await that really suspends: a store call, an       *)
(* external API call, a queue or semaphore wait, a sleep) to the next.     *)
(* Each action below is one such atomic stretch.                           *)
(***************************************************************************)
EXTENDS Integers, Sequences, FiniteSets, TLC

VARIABLES
    \* ---- rule store, registry, rule service (rules/service.py, registry.py)
    store,        \* rows of moderation_rules, in row order
    registry,     \* RuleRegistry._rules: layer -> chat scope -> list of rules
    regLog,       \* history: the rules put into the registry and not removed, in the order they were put
    callerInput,  \* add_rule calls the callers have yet to make (their keyword arguments)
    addCall,      \* the add_rule call holding RuleService._lock, or Idle
    rmCall,       \* a remove_rule call between its two awaits, or Idle
    bootCall,     \* a bootstrap call between its two awaits, or Idle
    nextId,       \* stands for uuid4(): the next fresh rule_id
    readResult,   \* what the last get_rules_for_layer call returned, with its arguments
    addResults,   \* history: how each add_rule call that is over ended, in the order they ended
    listed,       \* what the last RuleService.list_rules call returned, with its argument
    removed,      \* history: the rule_ids whose remove_rule call is over
    \* ---- batcher (batching/batcher.py)
    pending,      \* MessageBatcher._pending
    queue,        \* MessageBatcher._queue: the batches put and not yet taken
    timer,        \* MessageBatcher._flush_task: "none", "armed" (sleeping) or "done"
    stopped,      \* MessageBatcher._stopped
    drained,      \* MessageBatcher._drained
    submitted,    \* history: the envelopes submitted, in submission order
    emitted,      \* history: the batches put on the queue, in emission order
    lastGet,      \* what the last get() of a plain consumer returned or raised
    \* ---- pipeline (pipeline/pipeline.py)
    pipeGiven,    \* history: the layers handed to ModerationPipeline(...), in the order given
    pipeLayers,   \* ModerationPipeline.layers: the layers, sorted by priority
    pm,           \* the process_message call in progress: its locals and position
    invoked,      \* history: the layers whose evaluate() was called for the envelope, in call order
    returned,     \* history: what each of those calls returned
    pb,           \* the process_batch call in progress: its gather() and what it returned
    layerCall,    \* an evaluate() call of one layer taken alone: what it was given and returned
    \* ---- scheduler (scheduler/scheduler.py) and the incident table
    running,      \* ModerationScheduler._running
    consumer,     \* the _run task (_main_task): where it is suspended
    permits,      \* the value of ModerationScheduler._semaphore
    tasks,        \* the batch tasks launched, by launch number: locals and position
    disabledUntil,\* ModerationScheduler._disabled_until
    now,          \* time.monotonic()
    incidents,    \* rows of moderation_incidents
    decisions,    \* history: the on_decision calls made
    startCalls,   \* history: the start() calls made by concurrent callers, each with where it is
    consumers,    \* the _run tasks those calls created, in creation order
    mainTask,     \* ModerationScheduler._main_task: a place in consumers, 0 for None
    stopCall,     \* the stop() call of such a caller: what it waits for, and its return
    \* ---- aggregator (punishments/aggregator.py)
    aggInput,     \* the results handed to PunishmentAggregator.decide
    aggOutput     \* what decide returned for them

rulesVars == <<store, registry, regLog, callerInput, addCall, rmCall, bootCall, nextId, readResult,
              addResults, listed, removed>>

batcherVars == <<pending, queue, timer, stopped, drained, submitted, emitted, lastGet>>

pipeVars == <<pipeGiven, pipeLayers, pm, invoked, returned, pb, layerCall>>

\* start() and stop() as calls that other calls may overlap
lifeVars == <<startCalls, consumers, mainTask, stopCall>>

schedVars == <<running, consumer, permits, tasks, disabledUntil, now, incidents, decisions,
              lifeVars>>

aggVars == <<aggInput, aggOutput>>

vars == <<rulesVars, batcherVars, pipeVars, schedVars, aggVars>>

\* what an action of one component leaves alone
notRules == <<batcherVars, pipeVars, schedVars, aggVars>>
notBatcher == <<rulesVars, pipeVars, schedVars, aggVars>>
notPipe == <<rulesVars, batcherVars, schedVars, aggVars>>
notAgg == <<rulesVars, batcherVars, pipeVars, schedVars>>

\* Python's None
Null == "None"

Layers == {"regex", "omni", "chatgpt"}
RuleTypes == {"regex", "semantic", "contextual"}

\* ViolationPriority
PRIO_THREATS == 100
PRIO_NSFW == 80
PRIO_HATE == 70
PRIO_SPAM == 50
PRIO_OTHER == 10

\* OMNI_VALID_CATEGORIES
OMNI_VALID_CATEGORIES ==
    {"hate", "hate/threatening", "harassment", "harassment/threatening",
     "self-harm", "self-harm/intent", "self-harm/instructions",
     "sexual", "sexual/minors", "violence", "violence/graphic",
     "illicit", "illicit/violent"}

Idle == [pc |-> "idle"]

\* ------------------------------------------------------------------------
\* The state each component is constructed in
\* ------------------------------------------------------------------------

\* an empty dict
EmptyDict == << >>

\* no call of the kind is in progress or has returned
NoCall == [pc |-> "none"]

\* no get_rules_for_layer call has returned since the last mutation
NoRead == [layer |-> Null, chat_id |-> Null, rules |-> << >>]

\* RuleService.__init__ and RuleRegistry.__init__ on an empty store
RulesStart ==
    /\ store = << >>
    /\ registry = EmptyDict
    /\ regLog = << >>
    /\ addCall = Idle
    /\ rmCall = Idle
    /\ bootCall = Idle
    /\ nextId = 1
    /\ readResult = NoRead
    /\ addResults = << >>
    /\ listed = NoCall
    /\ removed = {}

\* the layer objects ModerationCoordinator builds, with the priority each
\* passes to ModerationLayer.__init__
RegexLayer == [layer_type |-> "regex", priority |-> 10]
OmniModerationLayer == [layer_type |-> "omni", priority |-> 20]
ChatGPTLayer == [layer_type |-> "chatgpt", priority |-> 30]

RECURSIVE InsertLayer(_, _)
\* one step of the stable sort: x goes before the first layer it is less than
\* (ModerationLayer.__lt__ compares priority)
InsertLayer(sorted, x) ==
    IF sorted = << >> THEN <<x>>
    ELSE IF x.priority < Head(sorted).priority THEN <<x>> \o sorted
         ELSE <<Head(sorted)>> \o InsertLayer(Tail(sorted), x)

RECURSIVE SortFrom(_, _)
SortFrom(sorted, layers) ==
    IF layers = << >> THEN sorted
    ELSE SortFrom(InsertLayer(sorted, Head(layers)), Tail(layers))

\* mutant: the layers are kept in the order they were given
SortLayers_AsGiven(layers) == layers

\* ModerationPipeline.__init__: tuple(sorted(layers))
SortLayers(layers) == SortFrom(<< >>, layers)

\* the layers ModerationCoordinator hands to its pipeline
CoordinatorLayers == <<RegexLayer, OmniModerationLayer, ChatGPTLayer>>

\* a pipeline with nothing in progress
PipeStart ==
    /\ pm = NoCall
    /\ pb = NoCall
    /\ layerCall = NoCall
    /\ invoked = << >>
    /\ returned = << >>

\* max_concurrent_batches of the scheduler under check
MaxConcurrentBatches == 1

\* ModerationScheduler.__init__ and an empty incident table
SchedStart ==
    /\ running = FALSE
    /\ consumer = [pc |-> "none"]
    /\ permits = MaxConcurrentBatches
    /\ tasks = << >>
    /\ disabledUntil = EmptyDict
    /\ now = 0
    /\ incidents = << >>
    /\ decisions = << >>
    /\ startCalls = << >>
    /\ consumers = << >>
    /\ mainTask = 0
    /\ stopCall = [pc |-> "none"]

\* decide has not been called
NoOutput == [decided |-> FALSE]

\* the coordinator's pipeline with nothing in progress
PipeIdle ==
    /\ pipeGiven = CoordinatorLayers
    /\ pipeLayers = SortLayers(pipeGiven)
    /\ PipeStart

\* an aggregator that was handed nothing
AggIdle == aggInput = << >> /\ aggOutput = NoOutput

\* nothing has been taken from the batcher by a plain consumer
NoGet == [kind |-> "none"]

\* MessageBatcher.__init__
BatcherStart ==
    /\ pending = << >>
    /\ queue = << >>
    /\ timer = "none"
    /\ stopped = FALSE
    /\ drained = FALSE
    /\ submitted = << >>
    /\ emitted = << >>
    /\ lastGet = NoGet

\* ------------------------------------------------------------------------
\* Small helpers over sequences
\* ------------------------------------------------------------------------

Range(s) == {s[i] : i \in DOMAIN s}

RECURSIVE FilterSeq(_, _)
\* [x for x in s if x.rule_id # id]
FilterSeq(s, id) ==
    IF s = << >> THEN << >>
    ELSE IF Head(s).rule_id # id THEN <<Head(s)>> \o FilterSeq(Tail(s), id)
         ELSE FilterSeq(Tail(s), id)

\* ------------------------------------------------------------------------
\* RuleRegistry
\* ------------------------------------------------------------------------

\* d[k] = v on a dict
DictPut(d, k, v) == [x \in (DOMAIN d) \cup {k} |-> IF x = k THEN v ELSE d[x]]

\* d.pop(k, None)
DictPop(d, k) == [x \in (DOMAIN d) \ {k} |-> d[x]]

\* defaultdict lookup that does not create: d.get(k, default)
DictGet(d, k, default) == IF k \in DOMAIN d THEN d[k] ELSE default

\* self._rules[rule.layer][rule.chat_id].append(rule)
RegAppend(reg, rule) ==
    LET byChat == DictGet(reg, rule.layer, EmptyDict)
        bucket == DictGet(byChat, rule.chat_id, << >>)
    IN  DictPut(reg, rule.layer, DictPut(byChat, rule.chat_id, Append(bucket, rule)))

RECURSIVE RegSeedFrom(_, _)
RegSeedFrom(reg, rules) ==
    IF rules = << >> THEN reg
    ELSE RegSeedFrom(RegAppend(reg, Head(rules)), Tail(rules))

\* RuleRegistry.seed: clear, then append every rule
RegSeed(rules) == RegSeedFrom(EmptyDict, rules)

\* RuleRegistry.add_rule
RegAdd(reg, rule) == RegAppend(reg, rule)

\* RuleRegistry.remove_rule: filter every bucket, drop the chat buckets left empty
RegRemove(reg, id) ==
    [l \in DOMAIN reg |->
        LET byChat == reg[l]
            keep == {c \in DOMAIN byChat : FilterSeq(byChat[c], id) # << >>}
        IN  [c \in keep |-> FilterSeq(byChat[c], id)]]

\* mutant: the chat's rules are put before the globals
GetRulesForLayer_ChatFirst(reg, layer, chat_id) ==
    LET layer_rules == DictGet(reg, layer, EmptyDict)
        combined == DictGet(layer_rules, Null, << >>)
    IN  IF chat_id # Null
        THEN DictGet(layer_rules, chat_id, << >>) \o combined
        ELSE combined

\* RuleRegistry.get_rules_for_layer: the list it returns
GetRulesForLayer(reg, layer, chat_id) ==
    LET layer_rules == DictGet(reg, layer, EmptyDict)
        combined == DictGet(layer_rules, Null, << >>)
    IN  IF chat_id # Null
        THEN combined \o DictGet(layer_rules, chat_id, << >>)
        ELSE combined

\* RuleRegistry.get_rules_for_layer: the registry it leaves (.get creates no bucket)
RegAfterGet(reg, layer, chat_id) == reg

\* every rule the registry holds, as a bag of rule_ids: id -> number of copies
RegCount(reg, id) ==
    LET RECURSIVE CountIn(_)
        CountIn(s) == IF s = << >> THEN 0
                      ELSE (IF Head(s).rule_id = id THEN 1 ELSE 0) + CountIn(Tail(s))
        RECURSIVE SumChats(_, _)
        SumChats(byChat, cs) ==
            IF cs = {} THEN 0
            ELSE LET c == CHOOSE x \in cs : TRUE
                 IN  CountIn(byChat[c]) + SumChats(byChat, cs \ {c})
        RECURSIVE SumLayers(_)
        SumLayers(ls) ==
            IF ls = {} THEN 0
            ELSE LET l == CHOOSE x \in ls : TRUE
                 IN  SumChats(reg[l], DOMAIN reg[l]) + SumLayers(ls \ {l})
    IN  SumLayers(DOMAIN reg)

\* ------------------------------------------------------------------------
\* The store's rule table (storage/sqlite.py)
\* ------------------------------------------------------------------------

\* upsert_rule: INSERT ... ON CONFLICT(rule_id) DO UPDATE: the row is replaced in
\* place when the id exists and appended otherwise
StoreUpsert(st, rule) ==
    IF \E i \in DOMAIN st : st[i].rule_id = rule.rule_id
    THEN [i \in DOMAIN st |-> IF st[i].rule_id = rule.rule_id THEN rule ELSE st[i]]
    ELSE Append(st, rule)

\* delete_rule: DELETE FROM moderation_rules WHERE rule_id = ?
StoreDelete(st, id) == FilterSeq(st, id)

\* list_rules: SELECT * FROM moderation_rules
StoreList(st) == st

StoreCount(st, id) == Cardinality({i \in DOMAIN st : st[i].rule_id = id})

\* ------------------------------------------------------------------------
\* RuleService (rules/service.py)
\* ------------------------------------------------------------------------

\* Python truthiness of an Optional[str]: None and "" are falsy
Falsy(x) == x = Null \/ x = ""

\* RuleService._resolve_layer: LayerType(value), CHATGPT for an unknown value
ResolveLayer(value) == IF value \in Layers THEN value ELSE "chatgpt"

\* RuleService._resolve_type: RuleType(value), SEMANTIC for an unknown value
ResolveType(value) == IF value \in RuleTypes THEN value ELSE "semantic"

Max(a, b) == IF a >= b THEN a ELSE b
Min(a, b) == IF a <= b THEN a ELSE b

\* mutant: a value equal to a threshold falls into the bucket below
ResolvePriority_Above(value) ==
    LET bounded == Max(0, Min(100, value))
    IN  IF bounded > 90 THEN PRIO_THREATS
        ELSE IF bounded > 70 THEN PRIO_NSFW
        ELSE IF bounded > 60 THEN PRIO_HATE
        ELSE IF bounded > 40 THEN PRIO_SPAM
        ELSE PRIO_OTHER

\* RuleService._resolve_priority
ResolvePriority(value) ==
    LET bounded == Max(0, Min(100, value))
    IN  IF bounded >= 90 THEN PRIO_THREATS
        ELSE IF bounded >= 70 THEN PRIO_NSFW
        ELSE IF bounded >= 60 THEN PRIO_HATE
        ELSE IF bounded >= 40 THEN PRIO_SPAM
        ELSE PRIO_OTHER

\* classification = None: the defaults add_rule reads in its place
NoClassification ==
    [present |-> FALSE, layer |-> "chatgpt", rule_type |-> "contextual",
     regex |-> Null, category |-> Null, priority |-> 10]

\* add_rule line 75: is the synthesizer called
NeedsSynth(ov) ==
    ov.layer = Null \/ ov.rule_type = Null \/ ov.pattern = Null \/ ov.category = Null

\* mutant: the catalog is not consulted
OmniCategoryOk_NoCatalog(category) == ~Falsy(category)

\* add_rule lines 111-112: an omni candidate keeps its layer
OmniCategoryOk(category) == ~Falsy(category) /\ category \in OMNI_VALID_CATEGORIES

\* add_rule lines 92-153: the rule built from the caller's overrides and the
\* classification (NoClassification when the synthesizer was not called)
BuildRule(ov, cls, id) ==
    LET layer0 == IF ov.layer # Null THEN ov.layer ELSE ResolveLayer(cls.layer)
        type0 == IF ov.rule_type # Null THEN ov.rule_type ELSE ResolveType(cls.rule_type)
        pattern0 == IF ov.pattern # Null THEN ov.pattern ELSE cls.regex
        category0 == IF ov.category # Null THEN ov.category ELSE cls.category
        pattern1 == IF layer0 \in {"omni", "chatgpt"} THEN Null ELSE pattern0
        demoted == \/ layer0 = "omni" /\ ~OmniCategoryOk(category0)
                   \/ layer0 = "regex" /\ Falsy(pattern0)
    IN  [rule_id |-> id,
         action |-> ov.action,
         layer |-> IF demoted THEN "chatgpt" ELSE layer0,
         rule_type |-> IF demoted THEN "contextual" ELSE type0,
         chat_id |-> ov.chat_id,
         pattern |-> pattern1,
         category |-> category0,
         priority |-> ResolvePriority(cls.priority)]

\* add_rule up to its first suspension: the service lock is taken; the
\* synthesizer is awaited when an override is missing, else the rule is built
\* and the call goes on to the store
AddBegin(ov) ==
    /\ addCall = Idle
    /\ ov \in callerInput
    /\ callerInput' = callerInput \ {ov}
    /\ IF NeedsSynth(ov)
       THEN /\ addCall' = [pc |-> "synth", ov |-> ov]
            /\ UNCHANGED nextId
       ELSE /\ addCall' = [pc |-> "upsert", ov |-> ov, cls |-> NoClassification,
                           rule |-> BuildRule(ov, NoClassification, nextId)]
            /\ nextId' = nextId + 1
    /\ UNCHANGED <<store, registry, regLog, rmCall, bootCall, readResult, addResults, listed, removed>>
    /\ UNCHANGED notRules

\* classify_rule returns: the rule is built from overrides and classification
AddSynthReturn(cls) ==
    /\ addCall.pc = "synth"
    /\ addCall' = [pc |-> "upsert", ov |-> addCall.ov, cls |-> cls,
                   rule |-> BuildRule(addCall.ov, cls, nextId)]
    /\ nextId' = nextId + 1
    /\ UNCHANGED <<store, registry, regLog, callerInput, rmCall, bootCall, readResult, addResults, listed, removed>>
    /\ UNCHANGED notRules

\* add_rule returned rule to the caller that passed ov
AddReturned(ov, rule) == [kind |-> "returned", ov |-> ov, rule |-> rule]

\* add_rule raised error to the caller that passed ov
AddRaised(ov, error) == [kind |-> "raised", ov |-> ov, error |-> error]

\* mutant: the exception leaves the call with the service lock still held
LockAfterError_Held(call) == [pc |-> "held", ov |-> call.ov]

\* an exception leaves the body of `async with self._lock`: __aexit__ releases
\* the lock
LockAfterError(call) == Idle

\* classify_rule raises OpenAIAdapterError: nothing in add_rule catches it, it
\* goes to the caller
AddSynthFail ==
    /\ addCall.pc = "synth"
    /\ addCall' = LockAfterError(addCall)
    /\ addResults' = Append(addResults, AddRaised(addCall.ov, "OpenAIAdapterError"))
    /\ UNCHANGED <<store, registry, regLog, callerInput, rmCall, bootCall, nextId, readResult, listed, removed>>
    /\ UNCHANGED notRules

\* await self._storage.upsert_rule(rule)
AddUpsert ==
    /\ addCall.pc = "upsert"
    /\ store' = StoreUpsert(store, addCall.rule)
    /\ addCall' = [addCall EXCEPT !.pc = "register"]
    /\ UNCHANGED <<registry, regLog, callerInput, rmCall, bootCall, nextId, readResult, addResults, listed, removed>>
    /\ UNCHANGED notRules

\* await self._registry.add_rule(rule); return: the lock is released
AddRegister ==
    /\ addCall.pc = "register"
    /\ registry' = RegAdd(registry, addCall.rule)
    /\ regLog' = Append(regLog, addCall.rule)
    /\ addCall' = Idle
    /\ addResults' = Append(addResults, AddReturned(addCall.ov, addCall.rule))
    /\ UNCHANGED <<store, callerInput, rmCall, bootCall, nextId, readResult, listed, removed>>
    /\ UNCHANGED notRules

\* remove_rule: await self._storage.delete_rule(rule_id); no service lock is taken
RemoveDelete(id) ==
    /\ rmCall = Idle
    /\ store' = StoreDelete(store, id)
    /\ rmCall' = [pc |-> "registry", rule_id |-> id]
    /\ UNCHANGED <<registry, regLog, callerInput, addCall, bootCall, nextId, readResult, addResults, listed, removed>>
    /\ UNCHANGED notRules

\* remove_rule: await self._registry.remove_rule(rule_id)
RemoveRegistry ==
    /\ rmCall.pc = "registry"
    /\ registry' = RegRemove(registry, rmCall.rule_id)
    /\ regLog' = FilterSeq(regLog, rmCall.rule_id)
    /\ rmCall' = Idle
    /\ removed' = removed \cup {rmCall.rule_id}
    /\ UNCHANGED <<store, callerInput, addCall, bootCall, nextId, readResult, addResults, listed>>
    /\ UNCHANGED notRules

\* bootstrap: rules = await self._storage.list_rules(); no service lock is taken
BootList ==
    /\ bootCall = Idle
    /\ bootCall' = [pc |-> "seed", rules |-> StoreList(store)]
    /\ UNCHANGED <<store, registry, regLog, callerInput, addCall, rmCall, nextId, readResult, addResults, listed, removed>>
    /\ UNCHANGED notRules

\* bootstrap: await self._registry.seed(rules)
BootSeed ==
    /\ bootCall.pc = "seed"
    /\ registry' = RegSeed(bootCall.rules)
    /\ regLog' = bootCall.rules
    /\ bootCall' = Idle
    /\ UNCHANGED <<store, callerInput, addCall, rmCall, nextId, readResult, addResults, listed, removed>>
    /\ UNCHANGED notRules

\* a reader (a layer) calls get_rules_for_layer(layer, chat_id)
GetRules(layer, chat_id) ==
    /\ readResult' = [layer |-> layer, chat_id |-> chat_id,
                      rules |-> GetRulesForLayer(registry, layer, chat_id)]
    /\ registry' = RegAfterGet(registry, layer, chat_id)
    /\ UNCHANGED <<store, regLog, callerInput, addCall, rmCall, bootCall, nextId, addResults, listed, removed>>
    /\ UNCHANGED notRules

\* ------------------------------------------------------------------------
\* The rule service under concurrent callers
\* ------------------------------------------------------------------------

Chats == {"c1", "c2"}

\* the add_rule calls of the concurrent workload: with every override given
\* (no synthesizer call) and with overrides missing
RuleWorkload ==
    { [layer |-> "regex", rule_type |-> "regex", pattern |-> "p", category |-> "x",
       chat_id |-> Null, action |-> "warn"],
      [layer |-> "regex", rule_type |-> "regex", pattern |-> "q", category |-> Null,
       chat_id |-> "c1", action |-> "delete"],
      [layer |-> Null, rule_type |-> Null, pattern |-> Null, category |-> Null,
       chat_id |-> Null, action |-> "ban"] }

\* what the synthesizer answers in the concurrent workload
RuleWorkloadSynth ==
    { [present |-> TRUE, layer |-> "regex", rule_type |-> "regex", regex |-> "r",
       category |-> "other", priority |-> 10],
      [present |-> TRUE, layer |-> "omni", rule_type |-> "semantic", regex |-> Null,
       category |-> "hate", priority |-> 75] }

\* the rule_ids a caller of remove_rule can have learnt: from list_rules or
\* from a rule add_rule returned
KnownRuleIds == {r.rule_id : r \in Range(store)} \cup {r.rule_id : r \in Range(regLog)}

InitRules ==
    /\ RulesStart
    /\ callerInput = RuleWorkload
    /\ BatcherStart
    /\ PipeIdle
    /\ SchedStart
    /\ AggIdle

NextRules ==
    \/ \E ov \in RuleWorkload : AddBegin(ov)
    \/ \E cls \in RuleWorkloadSynth : AddSynthReturn(cls)
    \/ AddSynthFail
    \/ AddUpsert
    \/ AddRegister
    \/ \E id \in KnownRuleIds : RemoveDelete(id)
    \/ RemoveRegistry
    \/ BootList
    \/ BootSeed

SpecRules == InitRules /\ [][NextRules]_vars

\* ------------------------------------------------------------------------
\* C1
\* ------------------------------------------------------------------------

\* no add_rule, remove_rule or bootstrap call is between two of its awaits
RulesQuiescent == addCall = Idle /\ rmCall = Idle /\ bootCall = Idle

\* C1: once every add_rule, remove_rule and bootstrap call made so far has run
\* to completion, the registry holds exactly the rules of the store, each
\* exactly once: the same rule_ids, none missing, none extra, none duplicated.
C1_RegistryEqualsStore ==
    RulesQuiescent =>
        \A id \in 1..nextId : RegCount(registry, id) = StoreCount(store, id)

\* ------------------------------------------------------------------------
\* add_rule over every combination of caller overrides and synthesizer output
\* ------------------------------------------------------------------------

\* Optional[str] values of a pattern: None, empty, a pattern
PatternValues == {Null, "", "p"}

\* Optional[str] values of a category: None, empty, of the catalog, outside it
CategoryValues == {Null, "", "sexual", "ads"}

\* the keyword arguments of one add_rule call
AllOverrides ==
    [layer : Layers \cup {Null}, rule_type : RuleTypes \cup {Null},
     pattern : PatternValues, category : CategoryValues,
     chat_id : {Null}, action : {"warn"}]

\* the RuleSynthesisResult values classify_rule can return: layer and rule_type
\* are free strings, priority a free integer
AllSynthResults ==
    [present : {TRUE}, layer : Layers \cup {"bogus"}, rule_type : RuleTypes \cup {"bogus"},
     regex : PatternValues, category : CategoryValues,
     priority : {-5, 65, 150}]

\* one add_rule call on an empty store and registry
InitAddRule ==
    /\ RulesStart
    /\ callerInput \in {{ov} : ov \in AllOverrides}
    /\ BatcherStart
    /\ PipeIdle
    /\ SchedStart
    /\ AggIdle

NextAddRule ==
    \/ \E ov \in callerInput : AddBegin(ov)
    \/ \E cls \in AllSynthResults : AddSynthReturn(cls)
    \/ AddSynthFail
    \/ AddUpsert
    \/ AddRegister

SpecAddRule == InitAddRule /\ [][NextAddRule]_vars

\* ------------------------------------------------------------------------
\* C9
\* ------------------------------------------------------------------------

\* the layer and category add_rule validates: the caller's override where it is
\* given, else the synthesizer's (an unknown layer name counts as chatgpt)
CandidateLayer(ov, cls) ==
    IF ov.layer # Null THEN ov.layer
    ELSE IF cls.layer \in Layers THEN cls.layer ELSE "chatgpt"

CandidateCategory(ov, cls) == IF ov.category # Null THEN ov.category ELSE cls.category

\* C9: every rule add_rule persists with layer=category (omni) has a category
\* of the official catalog and pattern=null; and a category-layer candidate
\* whose category is missing or outside the catalog is persisted demoted to
\* the contextual layer (chatgpt) with rule_type=contextual.
C9_CategoryLayerSafety ==
    /\ \A i \in DOMAIN store :
          store[i].layer = "omni" =>
              store[i].category \in OMNI_VALID_CATEGORIES /\ store[i].pattern = Null
    /\ addCall.pc = "register" =>
          \A i \in DOMAIN store :
              (/\ store[i].rule_id = addCall.rule.rule_id
               /\ CandidateLayer(addCall.ov, addCall.cls) = "omni"
               /\ CandidateCategory(addCall.ov, addCall.cls) \notin OMNI_VALID_CATEGORIES)
              => store[i].layer = "chatgpt" /\ store[i].rule_type = "contextual"

\* an omni rule is persisted although the synthesizer sent a pattern with it
C9_Witness ==
    /\ addCall.pc = "register"
    /\ addCall.cls.present /\ addCall.cls.regex = "p" /\ addCall.ov.pattern = Null
    /\ \E i \in DOMAIN store : store[i].layer = "omni" /\ store[i].pattern = Null

\* ------------------------------------------------------------------------
\* The registry on its own: seed, add_rule, remove_rule, get_rules_for_layer
\* ------------------------------------------------------------------------

MaxRegRules == 3

\* a rule as the registry sees it: it reads rule_id, layer and chat_id only
MkRule(id, layer, chat_id) ==
    [rule_id |-> id, action |-> "warn", layer |-> layer,
     rule_type |-> IF layer = "regex" THEN "regex"
                   ELSE IF layer = "omni" THEN "semantic" ELSE "contextual",
     chat_id |-> chat_id,
     pattern |-> IF layer = "regex" THEN "p" ELSE Null,
     category |-> IF layer = "regex" THEN Null ELSE "sexual",
     priority |-> PRIO_OTHER]

\* await registry.seed(rules) with one or two fresh rules, or none
RegistrySeedCall(rules) ==
    /\ nextId + Len(rules) - 1 <= MaxRegRules
    /\ registry' = RegSeed(rules)
    /\ regLog' = rules
    /\ nextId' = nextId + Len(rules)
    /\ readResult' = NoRead
    /\ UNCHANGED <<store, callerInput, addCall, rmCall, bootCall, addResults, listed, removed>>
    /\ UNCHANGED notRules

\* await registry.add_rule(rule) with a fresh rule
RegistryAddCall(rule) ==
    /\ nextId <= MaxRegRules
    /\ rule.rule_id = nextId
    /\ registry' = RegAdd(registry, rule)
    /\ regLog' = Append(regLog, rule)
    /\ nextId' = nextId + 1
    /\ readResult' = NoRead
    /\ UNCHANGED <<store, callerInput, addCall, rmCall, bootCall, addResults, listed, removed>>
    /\ UNCHANGED notRules

\* await registry.remove_rule(rule_id)
RegistryRemoveCall(id) ==
    /\ registry' = RegRemove(registry, id)
    /\ regLog' = FilterSeq(regLog, id)
    /\ readResult' = NoRead
    /\ UNCHANGED <<store, callerInput, addCall, rmCall, bootCall, nextId, addResults, listed, removed>>
    /\ UNCHANGED notRules

FreshRules(id) == {MkRule(id, l, c) : l \in Layers, c \in Chats \cup {Null}}

InitRegistry ==
    /\ RulesStart
    /\ callerInput = {}
    /\ BatcherStart
    /\ PipeIdle
    /\ SchedStart
    /\ AggIdle

NextRegistry ==
    \/ RegistrySeedCall(<< >>)
    \/ \E r \in FreshRules(nextId) : RegistrySeedCall(<<r>>)
    \/ \E r1 \in FreshRules(nextId), r2 \in FreshRules(nextId + 1) : RegistrySeedCall(<<r1, r2>>)
    \/ \E r \in FreshRules(nextId) : RegistryAddCall(r)
    \/ \E id \in 1..MaxRegRules : RegistryRemoveCall(id)
    \/ \E layer \in Layers, chat_id \in Chats \cup {Null} : GetRules(layer, chat_id)

SpecRegistry == InitRegistry /\ [][NextRegistry]_vars

\* ------------------------------------------------------------------------
\* C8
\* ------------------------------------------------------------------------

RECURSIVE SelectScope(_, _, _)
\* the rules of a layer and chat scope, in the order they entered the registry
SelectScope(log, layer, chat_id) ==
    IF log = << >> THEN << >>
    ELSE (IF Head(log).layer = layer /\ Head(log).chat_id = chat_id
          THEN <<Head(log)>> ELSE << >>) \o SelectScope(Tail(log), layer, chat_id)

\* the list of the last read (none since the last mutation: vacuous) is the
\* globals of its layer, then the rules of its layer and chat, each group in
\* insertion order, with no rule of another layer or chat
C8_ReadIsGlobalsThenChat ==
    readResult.layer # Null =>
        /\ readResult.rules =
              SelectScope(regLog, readResult.layer, Null)
              \o (IF readResult.chat_id # Null
                  THEN SelectScope(regLog, readResult.layer, readResult.chat_id)
                  ELSE << >>)
        /\ \A i \in DOMAIN readResult.rules :
              /\ readResult.rules[i].layer = readResult.layer
              /\ readResult.rules[i].chat_id \in {Null, readResult.chat_id}

\* a read leaves the registry as it was, and repeats the list of the same read
\* made before it with no mutation in between
C8_ReadChangesNothing ==
    \A layer \in Layers, chat_id \in Chats \cup {Null} :
        GetRules(layer, chat_id) =>
            /\ registry' = registry
            /\ (readResult.layer = layer /\ readResult.chat_id = chat_id)
                   => readResult'.rules = readResult.rules

\* C8: get_rules_for_layer(L, chat_id=c) returns the global rules of layer L
\* followed by the rules of layer L scoped to chat c, each group in insertion
\* order, never a rule of another layer or chat; with chat_id=null the globals
\* only; the read leaves the registry unchanged, so repeated reads without an
\* intervening mutation return equal lists.
C8_RegistryScoping == [](C8_ReadIsGlobalsThenChat) /\ [][C8_ReadChangesNothing]_vars

\* a read for chat c1 returned a global rule followed by a rule of c1 while the
\* registry also holds a rule of the same layer for another chat
C8_Witness ==
    /\ readResult.layer = "regex" /\ readResult.chat_id = "c1"
    /\ Len(readResult.rules) = 2
    /\ readResult.rules[1].chat_id = Null /\ readResult.rules[2].chat_id = "c1"
    /\ readResult.rules[1].rule_id > readResult.rules[2].rule_id
    /\ \E r \in Range(regLog) : r.layer = "regex" /\ r.chat_id = "c2"

\* ------------------------------------------------------------------------
\* MessageBatcher (batching/batcher.py)
\* ------------------------------------------------------------------------

\* max_batch_size of the batcher under check
MaxBatchSize == 2

\* the number of envelopes submitted in a run
MaxSubmit == 5

\* the batcher's own fields, as one value
BatcherState == [pending |-> pending, queue |-> queue, timer |-> timer, emitted |-> emitted]

\* MessageBatch(items=list(self._pending), flush_reason=reason)
MessageBatch(items, reason) == [items |-> items, flush_reason |-> reason]

\* mutant: no timer is ever created
ScheduleTimer_Never(tmr) == tmr

\* _schedule_timer: a live timer is kept, else a new one is created
ScheduleTimer(tmr) == IF tmr = "armed" THEN tmr ELSE "armed"

\* mutant: the flush leaves the pending buffer as it is
Flush_KeepsPending(b, reason) ==
    IF b.pending = << >> THEN b
    ELSE [b EXCEPT !.timer = "none",
                   !.queue = Append(b.queue, MessageBatch(b.pending, reason)),
                   !.emitted = Append(b.emitted, MessageBatch(b.pending, reason))]

\* mutant: the flush leaves the timer task running
Flush_KeepsTimer(b, reason) ==
    IF b.pending = << >> THEN b
    ELSE [pending |-> << >>,
          queue |-> Append(b.queue, MessageBatch(b.pending, reason)),
          timer |-> b.timer,
          emitted |-> Append(b.emitted, MessageBatch(b.pending, reason))]

\* _flush: nothing when the buffer is empty; else the buffer becomes one batch
\* on the queue, the buffer is cleared and the timer cancelled and forgotten
Flush(b, reason) ==
    IF b.pending = << >> THEN b
    ELSE [pending |-> << >>,
          queue |-> Append(b.queue, MessageBatch(b.pending, reason)),
          timer |-> "none",
          emitted |-> Append(b.emitted, MessageBatch(b.pending, reason))]

\* mutant: the buffer is flushed only once it holds more than max_batch_size
SubmitResult_FlushAbove(b, envelope) ==
    LET p1 == Append(b.pending, envelope)
        b1 == [b EXCEPT !.pending = p1,
                        !.timer = IF Len(p1) = 1 THEN ScheduleTimer(b.timer) ELSE b.timer]
    IN  IF Len(p1) > MaxBatchSize THEN Flush(b1, "size") ELSE b1

\* submit, from taking the lock to releasing it
SubmitResult(b, envelope) ==
    LET p1 == Append(b.pending, envelope)
        b1 == [b EXCEPT !.pending = p1,
                        !.timer = IF Len(p1) = 1 THEN ScheduleTimer(b.timer) ELSE b.timer]
    IN  IF Len(p1) >= MaxBatchSize THEN Flush(b1, "size") ELSE b1

\* await batcher.submit(envelope) with the next envelope
Submit ==
    /\ Len(submitted) < MaxSubmit
    /\ LET envelope == Len(submitted) + 1
           b == SubmitResult(BatcherState, envelope)
       IN  /\ pending' = b.pending
           /\ queue' = b.queue
           /\ timer' = b.timer
           /\ emitted' = b.emitted
           /\ submitted' = Append(submitted, envelope)
    /\ UNCHANGED <<stopped, drained, lastGet>>
    /\ UNCHANGED notBatcher

\* _delayed_flush after its sleep: flush("timer") under the lock; with an empty
\* buffer the task just ends and stays referenced
TimerFire ==
    /\ timer = "armed"
    /\ LET b == Flush(BatcherState, "timer")
       IN  /\ pending' = b.pending
           /\ queue' = b.queue
           /\ timer' = IF pending = << >> THEN "done" ELSE b.timer
           /\ emitted' = b.emitted
    /\ UNCHANGED <<stopped, drained, submitted, lastGet>>
    /\ UNCHANGED notBatcher

\* await batcher.stop()
BatcherStop ==
    /\ stopped' = TRUE
    /\ LET b == Flush(BatcherState, "stop")
       IN  /\ pending' = b.pending
           /\ queue' = b.queue
           /\ emitted' = b.emitted
    /\ timer' = "none"
    /\ drained' = TRUE
    /\ UNCHANGED <<submitted, lastGet>>
    /\ UNCHANGED notBatcher

\* await batcher.start()
BatcherRestart ==
    /\ stopped' = FALSE
    /\ drained' = FALSE
    /\ UNCHANGED <<pending, queue, timer, submitted, emitted, lastGet>>
    /\ UNCHANGED notBatcher

\* mutant: get never raises
GetClosed_Never(is_drained, q) == FALSE

\* get's check: stopped and drained, with nothing queued
GetClosed(is_drained, q) == is_drained /\ q = << >>

\* a consumer calls get(): closed error, a batch at once, or it suspends
GetCall ==
    /\ lastGet.kind # "waiting"
    /\ IF GetClosed(drained, queue)
       THEN lastGet' = [kind |-> "closed"] /\ UNCHANGED queue
       ELSE IF queue # << >>
            THEN lastGet' = [kind |-> "batch", batch |-> Head(queue)] /\ queue' = Tail(queue)
            ELSE lastGet' = [kind |-> "waiting"] /\ UNCHANGED queue
    /\ UNCHANGED <<pending, timer, stopped, drained, submitted, emitted>>
    /\ UNCHANGED notBatcher

\* a consumer suspended in get() is woken by a batch
GetWake ==
    /\ lastGet.kind = "waiting"
    /\ queue # << >>
    /\ lastGet' = [kind |-> "batch", batch |-> Head(queue)]
    /\ queue' = Tail(queue)
    /\ UNCHANGED <<pending, timer, stopped, drained, submitted, emitted>>
    /\ UNCHANGED notBatcher

InitBatcher ==
    /\ RulesStart
    /\ callerInput = {}
    /\ BatcherStart
    /\ PipeIdle
    /\ SchedStart
    /\ AggIdle

NextBatcher ==
    \/ Submit
    \/ TimerFire
    \/ BatcherStop
    \/ BatcherRestart
    \/ GetCall
    \/ GetWake

SpecBatcher == InitBatcher /\ [][NextBatcher]_vars

\* the same, with the event loop running the timer task once its sleep is over
SpecBatcherFair == InitBatcher /\ [][NextBatcher]_vars /\ WF_vars(TimerFire)

\* ------------------------------------------------------------------------
\* C2
\* ------------------------------------------------------------------------

RECURSIVE ConcatItems(_)
\* the items of a list of batches, concatenated
ConcatItems(batches) ==
    IF batches = << >> THEN << >>
    ELSE Head(batches).items \o ConcatItems(Tail(batches))

\* C2: after any sequence of submit, timer-fire and stop operations the items
\* of all emitted batches concatenated in emission order, followed by the
\* pending buffer, equal the submitted envelopes in submission order: no
\* envelope is lost, duplicated or reordered.
C2_NoLossNoDupNoReorder == ConcatItems(emitted) \o pending = submitted

\* three batches were emitted, one by each of size, timer and stop, and another
\* envelope is pending
C2_Witness ==
    /\ Len(emitted) >= 3
    /\ {emitted[i].flush_reason : i \in DOMAIN emitted} = {"size", "timer", "stop"}
    /\ pending # << >>

\* ------------------------------------------------------------------------
\* PunishmentAggregator (punishments/aggregator.py)
\* ------------------------------------------------------------------------

\* ModerationResult.verdict = None
NoVerdict == [is_none |-> TRUE]

\* decide returned None
NoDecision == [is_none |-> TRUE]

\* ModerationVerdict (reason and details play no part)
ModerationVerdict(layer, rule_code, priority, action, violated) ==
    [layer |-> layer, rule_code |-> rule_code, priority |-> priority,
     action |-> action, violated |-> violated]

\* LAYER_RANK.get(layer, 0)
LayerRank(layer) ==
    CASE layer = "regex" -> 1
      [] layer = "omni" -> 2
      [] layer = "chatgpt" -> 3
      [] OTHER -> 0

\* mutant: the priority alone is compared
IsBetter_PriorityOnly(candidate, current) == candidate.priority > current.priority

\* _is_better: (rank, priority) of the candidate > that of the current best,
\* as Python compares tuples
IsBetter(candidate, current) ==
    \/ LayerRank(candidate.layer) > LayerRank(current.layer)
    \/ /\ LayerRank(candidate.layer) = LayerRank(current.layer)
       /\ candidate.priority > current.priority

RECURSIVE DecideLoop(_, _, _, _)
\* the loop of decide from the i-th result on; best is the position of the
\* verdict object held in `best` (0: None), conflicts the positions of the
\* verdict objects appended to `conflicts`
DecideLoop(results, i, best, conflicts) ==
    IF i > Len(results) THEN [best |-> best, conflicts |-> conflicts]
    ELSE LET verdict == results[i].verdict
         IN  IF verdict = NoVerdict \/ ~verdict.violated
             THEN DecideLoop(results, i + 1, best, conflicts)
             ELSE IF best = 0 \/ IsBetter(verdict, results[best].verdict)
                  THEN DecideLoop(results, i + 1, i,
                                  IF best # 0 THEN Append(conflicts, best) ELSE conflicts)
                  ELSE DecideLoop(results, i + 1, best, Append(conflicts, i))

\* decide: None, or PunishmentDecision(verdict=best, conflicting=conflicts);
\* best_at and conflicts_at tell which verdict objects of the input these are
Decide(results) ==
    LET out == DecideLoop(results, 1, 0, << >>)
    IN  IF out.best = 0 THEN NoDecision
        ELSE [verdict |-> results[out.best].verdict,
              conflicting |-> [k \in DOMAIN out.conflicts |-> results[out.conflicts[k]].verdict],
              best_at |-> out.best,
              conflicts_at |-> out.conflicts]

\* the aggregator is handed aggInput
DecideCall ==
    /\ ~aggOutput.decided
    /\ aggOutput' = [decided |-> TRUE, decision |-> Decide(aggInput)]
    /\ UNCHANGED aggInput
    /\ UNCHANGED notAgg

\* ------------------------------------------------------------------------
\* The aggregator over every short list of results
\* ------------------------------------------------------------------------

\* the longest list of results handed to decide
MaxResults == 3

\* the verdicts a result may carry
AggVerdicts ==
    {NoVerdict} \cup
    {ModerationVerdict(layer, "rule", priority, action, violated) :
        layer \in Layers, priority \in {PRIO_OTHER, PRIO_SPAM},
        action \in {"warn", "none"}, violated \in BOOLEAN}

AggResults == {[verdict |-> v] : v \in AggVerdicts}

InitAgg ==
    /\ RulesStart
    /\ callerInput = {}
    /\ BatcherStart
    /\ PipeIdle
    /\ SchedStart
    /\ aggInput \in UNION {[1..n -> AggResults] : n \in 0..MaxResults}
    /\ aggOutput = NoOutput

NextAgg == DecideCall

SpecAgg == InitAgg /\ [][NextAgg]_vars

\* ------------------------------------------------------------------------
\* C5
\* ------------------------------------------------------------------------

\* the positions of the results that carry a violated verdict
C5_Violated ==
    {i \in DOMAIN aggInput :
        aggInput[i].verdict # NoVerdict /\ aggInput[i].verdict.violated}

\* regex=1 < category=2 < contextual=3
C5_Rank(layer) == IF layer = "regex" THEN 1 ELSE IF layer = "omni" THEN 2 ELSE 3

\* (rank, priority) of a exceeds that of b lexicographically
C5_Exceeds(a, b) ==
    \/ C5_Rank(a.layer) > C5_Rank(b.layer)
    \/ C5_Rank(a.layer) = C5_Rank(b.layer) /\ a.priority > b.priority

\* C5: for any sequence of results decide returns null exactly when no result
\* carries a violated verdict; otherwise the chosen verdict is violated and
\* maximizes (LAYER_RANK[layer], priority) lexicographically among the violated
\* verdicts, and conflicting holds every other violated verdict and never the
\* chosen one.
C5_DecideChoosesMaximum ==
    aggOutput.decided =>
        LET d == aggOutput.decision
        IN  /\ (d = NoDecision) <=> (C5_Violated = {})
            /\ d # NoDecision =>
                 /\ d.best_at \in C5_Violated
                 /\ d.verdict = aggInput[d.best_at].verdict
                 /\ d.verdict.violated
                 /\ \A i \in C5_Violated : ~C5_Exceeds(aggInput[i].verdict, d.verdict)
                 /\ Range(d.conflicts_at) = C5_Violated \ {d.best_at}
                 /\ Len(d.conflicts_at) = Cardinality(C5_Violated) - 1
                 /\ \A k \in DOMAIN d.conflicts_at :
                        d.conflicting[k] = aggInput[d.conflicts_at[k]].verdict

\* three violated verdicts were handed in; the chosen one is the second, of a
\* higher layer and a lower priority than the first, and the other two are the
\* conflicts
C5_Witness ==
    /\ aggOutput.decided
    /\ aggOutput.decision # NoDecision
    /\ Cardinality(C5_Violated) = 3
    /\ aggOutput.decision.best_at = 2
    /\ aggOutput.decision.verdict.priority < aggInput[1].verdict.priority
    /\ Range(aggOutput.decision.conflicts_at) = {1, 3}

\* ------------------------------------------------------------------------
\* ModerationPipeline (pipeline/pipeline.py)
\* ------------------------------------------------------------------------

\* ModerationResult(message=..., verdict=..., evaluated_layers=...)
ModerationResult(message, verdict, evaluated) ==
    [message |-> message, verdict |-> verdict, evaluated_layers |-> evaluated]

\* mutant: no verdict stops the loop
ShortCircuit_Never(verdict) == FALSE

\* mutant: any violated verdict stops the loop, whatever its action
ShortCircuit_AnyViolated(verdict) == verdict.violated

\* ModerationVerdict.short_circuit
ShortCircuit(verdict) == verdict.violated /\ verdict.action # "none"

RECURSIVE SkipDisabled(_, _, _)
\* the loop of process_message from the k-th layer on, up to the next layer
\* that is not skipped: its position, or Len(layers) + 1 when the loop ends
SkipDisabled(layers, k, disabled) ==
    IF k > Len(layers) THEN k
    ELSE IF disabled # {} /\ layers[k].layer_type \in disabled
         THEN SkipDisabled(layers, k + 1, disabled)
         ELSE k

\* process_message from the k-th layer on, up to its next suspension in
\* evaluate() or its clean return
PipeAdvance(message, disabled, k, evaluated) ==
    LET n == SkipDisabled(pipeLayers, k, disabled)
    IN  IF n > Len(pipeLayers)
        THEN [pc |-> "done", disabled |-> disabled,
              result |-> ModerationResult(message, NoVerdict, evaluated)]
        ELSE [pc |-> "eval", message |-> message, disabled |-> disabled, k |-> n,
              evaluated |-> Append(evaluated, pipeLayers[n].layer_type)]

\* what a layer's evaluate() may return: None or a verdict of that layer
LayerVerdicts(layer) ==
    {NoVerdict} \cup
    {ModerationVerdict(layer, "rule", PRIO_SPAM, action, violated) :
        action \in {"ban", "none"}, violated \in BOOLEAN}

\* process_message(message, disabled_layers=disabled) is called and runs to the
\* first evaluate() (None and the empty set are alike to `if disabled_layers`)
PipeBegin(message, disabled) ==
    /\ pm = NoCall
    /\ pm' = PipeAdvance(message, disabled, 1, << >>)
    /\ invoked' = IF pm'.pc = "eval"
                  THEN Append(invoked, pipeLayers[pm'.k].layer_type) ELSE invoked
    /\ UNCHANGED <<pipeGiven, pipeLayers, returned, pb, layerCall>>
    /\ UNCHANGED notPipe

\* the evaluate() awaited returns verdict: the call returns it, or goes on to
\* the next evaluate() or to its clean return
PipeLayerReturns(verdict) ==
    /\ pm.pc = "eval"
    /\ returned' = Append(returned, verdict)
    /\ IF verdict # NoVerdict /\ ShortCircuit(verdict)
       THEN /\ pm' = [pc |-> "done", disabled |-> pm.disabled,
                      result |-> ModerationResult(pm.message, verdict, pm.evaluated)]
            /\ UNCHANGED invoked
       ELSE /\ pm' = PipeAdvance(pm.message, pm.disabled, pm.k + 1, pm.evaluated)
            /\ invoked' = IF pm'.pc = "eval"
                          THEN Append(invoked, pipeLayers[pm'.k].layer_type) ELSE invoked
    /\ UNCHANGED <<pipeGiven, pipeLayers, pb, layerCall>>
    /\ UNCHANGED notPipe

\* the errors the evaluate() of a layer can meet: a rule pattern re.compile
\* rejects (regex); for the layers that call the API a 4xx answer
\* (OpenAIAdapterError), a 5xx answer (raise_for_status), an answer without
\* the expected keys, and for chatgpt a completion that is not JSON
LayerErrors(layer_type) ==
    IF layer_type = "regex" THEN {"bad_pattern"}
    ELSE IF layer_type = "omni" THEN {"api_error", "server_error", "malformed_response"}
    ELSE {"api_error", "server_error", "malformed_response", "invalid_json"}

\* the errors the evaluate() of a layer catches: OpenAIAdapterError in omni and
\* chatgpt, json.JSONDecodeError in chatgpt, nothing in regex
EvaluateCatches(layer_type, error) ==
    \/ layer_type \in {"omni", "chatgpt"} /\ error = "api_error"
    \/ layer_type = "chatgpt" /\ error = "invalid_json"

\* the evaluate() awaited meets an error it catches: it logs it and returns
\* None
PipeLayerAbsorbs(error) ==
    /\ pm.pc = "eval"
    /\ error \in LayerErrors(pipeLayers[pm.k].layer_type)
    /\ EvaluateCatches(pipeLayers[pm.k].layer_type, error)
    /\ PipeLayerReturns(NoVerdict)

\* the evaluate() awaited meets an error it does not catch: process_message
\* lets the exception through, and with it gather() and process_batch
PipeLayerRaises(error) ==
    /\ pm.pc = "eval"
    /\ error \in LayerErrors(pipeLayers[pm.k].layer_type)
    /\ ~EvaluateCatches(pipeLayers[pm.k].layer_type, error)
    /\ pm' = [pc |-> "raised", disabled |-> pm.disabled, evaluated |-> pm.evaluated,
              layer |-> pipeLayers[pm.k].layer_type, error |-> error]
    /\ UNCHANGED <<pipeGiven, pipeLayers, invoked, returned, pb, layerCall>>
    /\ UNCHANGED notPipe

\* ------------------------------------------------------------------------
\* One process_message call on a pipeline built from any layers in any order
\* ------------------------------------------------------------------------

\* the orders in which one, two or three of the layers can be handed over
LayerOrders ==
    {o \in UNION {[1..n -> {RegexLayer, OmniModerationLayer, ChatGPTLayer}] : n \in 1..3} :
        \A i, j \in DOMAIN o : i # j => o[i] # o[j]}

InitPipe ==
    /\ RulesStart
    /\ callerInput = {}
    /\ BatcherStart
    /\ pipeGiven \in LayerOrders
    /\ pipeLayers = SortLayers(pipeGiven)
    /\ PipeStart
    /\ SchedStart
    /\ AggIdle

NextPipe ==
    \/ \E disabled \in SUBSET Layers : PipeBegin(1, disabled)
    \/ /\ pm.pc = "eval"
       /\ \E verdict \in LayerVerdicts(pipeLayers[pm.k].layer_type) : PipeLayerReturns(verdict)
    \/ /\ pm.pc = "eval"
       /\ \E error \in LayerErrors(pipeLayers[pm.k].layer_type) : PipeLayerAbsorbs(error)
    \/ /\ pm.pc = "eval"
       /\ \E error \in LayerErrors(pipeLayers[pm.k].layer_type) : PipeLayerRaises(error)

SpecPipe == InitPipe /\ [][NextPipe]_vars

\* ------------------------------------------------------------------------
\* C4
\* ------------------------------------------------------------------------

\* the position in pipeline order of the layer of a type
PipePosition(layer_type) ==
    CHOOSE k \in DOMAIN pipeLayers : pipeLayers[k].layer_type = layer_type

\* the i-th evaluate() of the call returned a short-circuit-eligible verdict
C4_Eligible(i) ==
    /\ returned[i] # NoVerdict
    /\ returned[i].violated
    /\ returned[i].action # "none"

\* C4: when the k-th layer in pipeline order returns a short-circuit-eligible
\* verdict (violated, action other than none), layers k+1..N are not invoked
\* for the envelope, the result carries that verdict, and evaluated_layers
\* ends at layer k.
C4_ShortCircuit ==
    \A i \in DOMAIN returned :
        C4_Eligible(i) =>
            LET k == PipePosition(invoked[i])
            IN  /\ i = Len(returned)
                /\ \A j \in DOMAIN pipeLayers :
                       j > k => pipeLayers[j].layer_type \notin Range(invoked)
                /\ pm.pc = "done"
                /\ pm.result.verdict = returned[i]
                /\ pm.result.evaluated_layers # << >>
                /\ pm.result.evaluated_layers[Len(pm.result.evaluated_layers)]
                       = pipeLayers[k].layer_type

\* on a pipeline of three layers the first returned a violated verdict with
\* action none, the second an eligible one, and the call is over with the
\* third never invoked
C4_Witness ==
    /\ Len(pipeLayers) = 3
    /\ Len(returned) = 2
    /\ returned[1] # NoVerdict /\ returned[1].violated /\ returned[1].action = "none"
    /\ C4_Eligible(2)
    /\ pm.pc = "done"
    /\ invoked = <<"regex", "omni">>

\* ------------------------------------------------------------------------
\* C10
\* ------------------------------------------------------------------------

\* the evaluated list of the call, while it runs and once it is over
C10_Evaluated ==
    IF pm.pc = "done" THEN pm.result.evaluated_layers ELSE pm.evaluated

\* the pipeline's layers outside disabled_layers in the order Regex, Category,
\* Contextual
C10_Expected ==
    LET Enabled(layer_type) ==
            /\ layer_type \notin pm.disabled
            /\ \E i \in DOMAIN pipeGiven : pipeGiven[i].layer_type = layer_type
    IN  SelectSeq(<<"regex", "omni", "chatgpt">>, Enabled)

\* C10: the layers invoked for an envelope are exactly those listed in
\* evaluated_layers: the layers not in disabled_layers, in the order Regex,
\* Category, Contextual whatever order the pipeline was constructed with; a
\* disabled layer is never invoked, and a clean result lists every
\* non-disabled layer.
C10_InvokedIsEvaluated ==
    pm # NoCall =>
        /\ invoked = C10_Evaluated
        /\ Len(invoked) <= Len(C10_Expected)
        /\ invoked = SubSeq(C10_Expected, 1, Len(invoked))
        /\ Range(invoked) \cap pm.disabled = {}
        /\ (pm.pc = "done" /\ pm.result.verdict = NoVerdict) => invoked = C10_Expected

\* a pipeline constructed as Contextual, Regex, Category returned a clean
\* result with Category disabled: Regex, then Contextual were invoked
C10_Witness ==
    /\ pipeGiven = <<ChatGPTLayer, RegexLayer, OmniModerationLayer>>
    /\ pm.pc = "done"
    /\ pm.disabled = {"omni"}
    /\ pm.result.verdict = NoVerdict
    /\ pm.result.evaluated_layers = <<"regex", "chatgpt">>
    /\ invoked = <<"regex", "chatgpt">>

\* ------------------------------------------------------------------------
\* ModerationScheduler (scheduler/scheduler.py) with the incident table
\* ------------------------------------------------------------------------

\* the envelope the batcher knows as item e: its ChatContext
MessageEnvelope(e) ==
    [context |-> [chat_id |-> IF e % 2 = 1 THEN "c1" ELSE "c2",
                  user_id |-> IF e % 3 = 0 THEN "u2" ELSE "u1",
                  message_id |-> e]]

RECURSIVE ProcessFrom(_, _, _, _, _)
\* process_message from the k-th layer on, run to its end, when the evaluate()
\* of each layer returns answers[layer]
ProcessFrom(message, disabled, answers, k, evaluated) ==
    LET n == SkipDisabled(pipeLayers, k, disabled)
    IN  IF n > Len(pipeLayers) THEN ModerationResult(message, NoVerdict, evaluated)
        ELSE LET layer_type == pipeLayers[n].layer_type
                 verdict == answers[layer_type]
             IN  IF verdict # NoVerdict /\ ShortCircuit(verdict)
                 THEN ModerationResult(message, verdict, Append(evaluated, layer_type))
                 ELSE ProcessFrom(message, disabled, answers, n + 1,
                                  Append(evaluated, layer_type))

\* the results process_message can return for a message, over everything the
\* layers can answer
ProcessMessageResults(message, disabled) ==
    {ProcessFrom(message, disabled, [regex |-> r, omni |-> o, chatgpt |-> c], 1, << >>) :
        r \in LayerVerdicts("regex"), o \in LayerVerdicts("omni"),
        c \in LayerVerdicts("chatgpt")}

\* the results process_batch can return: one per item, in the order of the items
ProcessBatchResults(batch, disabled) ==
    {results \in [DOMAIN batch.items ->
                     UNION {ProcessMessageResults(MessageEnvelope(batch.items[i]), disabled) :
                                i \in DOMAIN batch.items}] :
        \A i \in DOMAIN batch.items : results[i].message = MessageEnvelope(batch.items[i])}

\* _current_disabled_layers: the layers paused beyond now, and the dict with
\* its expired entries popped
CurrentDisabledLayers(until, t) ==
    [disabled |-> {layer \in DOMAIN until : until[layer] > t},
     until |-> [layer \in {l \in DOMAIN until : until[l] > t} |-> until[layer]]]

\* the row record_batch_results builds for a result
IncidentRow(result) ==
    [rule_id |-> result.verdict.rule_code, layer |-> result.verdict.layer,
     action |-> result.verdict.action, priority |-> result.verdict.priority,
     chat_id |-> result.message.context.chat_id,
     user_id |-> result.message.context.user_id,
     message_id |-> result.message.context.message_id]

\* mutant: no row is built
IncidentRows_None(results) == << >>

RECURSIVE IncidentRows(_)
\* the entries of record_batch_results: a row per result with a verdict
IncidentRows(results) ==
    IF results = << >> THEN << >>
    ELSE (IF Head(results).verdict = NoVerdict THEN << >>
          ELSE <<IncidentRow(Head(results))>>) \o IncidentRows(Tail(results))

\* the batch task create_task(self._process_batch(batch)) makes
BatchTask(batch) ==
    [pc |-> "created", batch |-> batch, disabled |-> {}, results |-> << >>,
     idx |-> 0, recorded |-> FALSE, in_tasks |-> TRUE, log |-> << >>]

\* logger.error(event, ...) about a batch task; idx is the result the task was
\* at (0: none)
ErrorLogged(event, idx) == [event |-> event, idx |-> idx]

\* mutant: acquire never waits
SemaphoreLocked_Never(value) == FALSE

\* Semaphore.locked(): acquire suspends when no permit is left
SemaphoreLocked(value) == value = 0

\* _run after acquire returned: the task is created and kept in _tasks
Launch(c, batch) ==
    [c EXCEPT !.permits = @ - 1, !.tasks = Append(@, BatchTask(batch))]

RECURSIVE ConsumerLoop(_)
\* _run from the top of its loop to its next suspension or its end; c holds
\* the queue, the permits, the tasks and the consumer's position
ConsumerLoop(c) ==
    IF ~running THEN [c EXCEPT !.consumer = [pc |-> "exited"]]
    ELSE IF GetClosed(drained, c.queue) THEN [c EXCEPT !.consumer = [pc |-> "closed"]]
    ELSE IF c.queue = << >> THEN [c EXCEPT !.consumer = [pc |-> "get"]]
    ELSE LET batch == Head(c.queue)
             c1 == [c EXCEPT !.queue = Tail(@)]
         IN  IF SemaphoreLocked(c1.permits)
             THEN [c1 EXCEPT !.consumer = [pc |-> "acquire", batch |-> batch]]
             ELSE ConsumerLoop(Launch(c1, batch))

\* the fields _run works on, as one value
ConsumerState ==
    [queue |-> queue, permits |-> permits, tasks |-> tasks, consumer |-> consumer]

\* the consumer ran from c to its next suspension
ConsumerRan(c) ==
    /\ queue' = c.queue
    /\ permits' = c.permits
    /\ tasks' = c.tasks
    /\ consumer' = c.consumer
    /\ UNCHANGED <<running, disabledUntil, now, incidents, decisions>>
    /\ UNCHANGED lifeVars
    /\ UNCHANGED <<pending, timer, stopped, drained, submitted, emitted, lastGet>>
    /\ UNCHANGED <<rulesVars, pipeVars, aggVars>>

\* the _run task runs for the first time
ConsumerFirstRun ==
    /\ consumer.pc = "ready"
    /\ ConsumerRan(ConsumerLoop(ConsumerState))

\* the _run task suspended in batcher.get() is woken by a batch
ConsumerGetWake ==
    /\ consumer.pc = "get"
    /\ queue # << >>
    /\ LET c1 == [ConsumerState EXCEPT !.queue = Tail(@)]
       IN  ConsumerRan(IF SemaphoreLocked(permits)
                       THEN [c1 EXCEPT !.consumer = [pc |-> "acquire", batch |-> Head(queue)]]
                       ELSE ConsumerLoop(Launch(c1, Head(queue))))

\* the _run task suspended in acquire() gets a permit
ConsumerAcquireWake ==
    /\ consumer.pc = "acquire"
    /\ permits > 0
    /\ ConsumerRan(ConsumerLoop(Launch(ConsumerState, consumer.batch)))

\* await scheduler.start(): nothing when running, else the _run task is created
SchedulerStart ==
    /\ ~running
    /\ running' = TRUE
    /\ consumer' = [pc |-> "ready"]
    /\ UNCHANGED <<permits, tasks, disabledUntil, now, incidents, decisions>>
    /\ UNCHANGED lifeVars
    /\ UNCHANGED <<rulesVars, batcherVars, pipeVars, aggVars>>

\* await scheduler.stop(), up to its wait for the batch tasks: a _run task that
\* is suspended (or has yet to run) ends cancelled, with the batch it holds
SchedulerStop ==
    /\ running' = FALSE
    /\ consumer' = IF consumer.pc \in {"ready", "get", "acquire"}
                   THEN [pc |-> "cancelled"] ELSE consumer
    /\ UNCHANGED <<permits, tasks, disabledUntil, now, incidents, decisions>>
    /\ UNCHANGED lifeVars
    /\ UNCHANGED <<rulesVars, batcherVars, pipeVars, aggVars>>

\* what a step of a batch task leaves alone
TaskOnly ==
    /\ UNCHANGED <<running, consumer, now>>
    /\ UNCHANGED lifeVars
    /\ UNCHANGED <<rulesVars, batcherVars, pipeVars, aggVars>>

\* _process_batch runs up to its await of process_batch
TaskStart(i) ==
    /\ tasks[i].pc = "created"
    /\ LET cur == CurrentDisabledLayers(disabledUntil, now)
       IN  /\ tasks' = [tasks EXCEPT ![i].pc = "pipeline", ![i].disabled = cur.disabled]
           /\ disabledUntil' = cur.until
    /\ UNCHANGED <<permits, incidents, decisions>>
    /\ TaskOnly

\* process_batch returns its results; record_batch_results is awaited
TaskPipelineReturns(i) ==
    /\ tasks[i].pc = "pipeline"
    /\ \E results \in ProcessBatchResults(tasks[i].batch, tasks[i].disabled) :
           tasks' = [tasks EXCEPT ![i].pc = "record", ![i].results = results]
    /\ UNCHANGED <<permits, disabledUntil, incidents, decisions>>
    /\ TaskOnly

\* mutant: the exception of process_batch is not caught
AfterPipelineError_Uncaught(task) == [task EXCEPT !.pc = "failed"]

\* the except clause around process_batch: the error is logged and
\* _process_batch returns
AfterPipelineError(task) ==
    [task EXCEPT !.pc = "done",
                 !.log = Append(@, ErrorLogged("batch_processing_failed", 0))]

\* process_batch raises (a layer raised)
TaskPipelineRaises(i) ==
    /\ tasks[i].pc = "pipeline"
    /\ tasks' = [tasks EXCEPT ![i] = AfterPipelineError(tasks[i])]
    /\ UNCHANGED <<permits, disabledUntil, incidents, decisions>>
    /\ TaskOnly

RECURSIVE NextDecision(_, _)
\* the loop over the results from the j-th on: the first for which
\* decide([result]) is not None, or 0
NextDecision(results, j) ==
    IF j > Len(results) THEN 0
    ELSE IF Decide(<<results[j]>>) # NoDecision THEN j
         ELSE NextDecision(results, j + 1)

\* the loop over the results of task i (now t) from the j-th on, up to its
\* next await of the decision callback or the end of _process_batch
TaskLoop(i, t, j) ==
    LET n == NextDecision(t.results, j)
    IN  IF n = 0
        THEN /\ tasks' = [tasks EXCEPT ![i] = [t EXCEPT !.pc = "done"]]
             /\ UNCHANGED decisions
        ELSE /\ tasks' = [tasks EXCEPT ![i] = [t EXCEPT !.pc = "callback", !.idx = n]]
             /\ decisions' = Append(decisions,
                                    [decision |-> Decide(<<t.results[n]>>),
                                     result |-> t.results[n]])

\* record_batch_results returns: the rows are in the table
TaskRecordReturns(i) ==
    /\ tasks[i].pc = "record"
    /\ incidents' = incidents \o IncidentRows(tasks[i].results)
    /\ TaskLoop(i, [tasks[i] EXCEPT !.recorded = TRUE], 1)
    /\ UNCHANGED <<permits, disabledUntil>>
    /\ TaskOnly

\* record_batch_results raises: nothing catches it, the task ends with the
\* exception
TaskRecordRaises(i) ==
    /\ tasks[i].pc = "record"
    /\ tasks' = [tasks EXCEPT ![i].pc = "failed"]
    /\ UNCHANGED <<permits, disabledUntil, incidents, decisions>>
    /\ TaskOnly

\* the decision callback returns: on to the next result
TaskCallbackReturns(i) ==
    /\ tasks[i].pc = "callback"
    /\ TaskLoop(i, tasks[i], tasks[i].idx + 1)
    /\ UNCHANGED <<permits, disabledUntil, incidents>>
    /\ TaskOnly

\* mutant: the result whose callback raised is taken up again
AfterCallbackError_Retry(idx) == idx

\* the except clause around the callback ends the loop body: the result the
\* loop takes up next
AfterCallbackError(idx) == idx + 1

\* the decision callback raises: logged, and on to the next result
TaskCallbackRaises(i) ==
    /\ tasks[i].pc = "callback"
    /\ TaskLoop(i,
                [tasks[i] EXCEPT !.log = Append(@, ErrorLogged("decision_callback_failed",
                                                               tasks[i].idx))],
                AfterCallbackError(tasks[i].idx))
    /\ UNCHANGED <<permits, disabledUntil, incidents>>
    /\ TaskOnly

\* mutant: the permit is not given back
SemaphoreRelease_Lost(value) == value

\* Semaphore.release()
SemaphoreRelease(value) == value + 1

\* _on_task_done, the done callback of a finished task
OnTaskDone(i) ==
    /\ tasks[i].pc \in {"done", "failed"}
    /\ tasks[i].in_tasks
    /\ tasks' = [tasks EXCEPT ![i].in_tasks = FALSE,
                              ![i].log = IF tasks[i].pc = "failed"
                                         THEN Append(@, ErrorLogged("batch_task_failed", 0))
                                         ELSE @]
    /\ permits' = SemaphoreRelease(permits)
    /\ UNCHANGED <<disabledUntil, incidents, decisions>>
    /\ TaskOnly

\* ------------------------------------------------------------------------
\* The scheduler fed by the batcher
\* ------------------------------------------------------------------------

\* the layers of the pipeline the scheduler under check is given
SchedulerLayers == <<RegexLayer>>

\* the number of envelopes submitted in a run of the scheduler
MaxSchedSubmit == 2

InitSched ==
    /\ RulesStart
    /\ callerInput = {}
    /\ BatcherStart
    /\ pipeGiven = SchedulerLayers
    /\ pipeLayers = SortLayers(pipeGiven)
    /\ PipeStart
    /\ SchedStart
    /\ AggIdle

NextSched ==
    \/ Len(submitted) < MaxSchedSubmit /\ Submit
    \/ TimerFire
    \/ BatcherStop
    \/ SchedulerStart
    \/ SchedulerStop
    \/ ConsumerFirstRun
    \/ ConsumerGetWake
    \/ ConsumerAcquireWake
    \/ \E i \in DOMAIN tasks : TaskStart(i)
    \/ \E i \in DOMAIN tasks : TaskPipelineReturns(i)
    \/ \E i \in DOMAIN tasks : TaskPipelineRaises(i)
    \/ \E i \in DOMAIN tasks : TaskRecordReturns(i)
    \/ \E i \in DOMAIN tasks : TaskRecordRaises(i)
    \/ \E i \in DOMAIN tasks : TaskCallbackReturns(i)
    \/ \E i \in DOMAIN tasks : TaskCallbackRaises(i)
    \/ \E i \in DOMAIN tasks : OnTaskDone(i)

SpecSched == InitSched /\ [][NextSched]_vars

\* a step of the scheduler's own tasks: the consumer or a batch task
SchedulerStep ==
    \/ ConsumerFirstRun
    \/ ConsumerGetWake
    \/ ConsumerAcquireWake
    \/ \E i \in DOMAIN tasks :
          \/ TaskStart(i)
          \/ TaskPipelineReturns(i)
          \/ TaskPipelineRaises(i)
          \/ TaskRecordReturns(i)
          \/ TaskRecordRaises(i)
          \/ TaskCallbackReturns(i)
          \/ TaskCallbackRaises(i)
          \/ OnTaskDone(i)

\* the batch tasks launched and not yet completed
InFlight == {i \in DOMAIN tasks : tasks[i].pc \notin {"done", "failed"}}

\* the batch tasks whose _process_batch is over, normally or with an exception
Completed == {i \in DOMAIN tasks : tasks[i].pc \in {"done", "failed"}}

\* ------------------------------------------------------------------------
\* C3
\* ------------------------------------------------------------------------

\* no more than max_concurrent_batches batch tasks are launched and not over
C3_InFlightBounded == Cardinality(InFlight) <= MaxConcurrentBatches

\* a step that launches batch tasks takes one permit, which was there, for each
C3_LaunchTakesPermit ==
    Len(tasks') > Len(tasks) =>
        /\ permits >= Len(tasks') - Len(tasks)
        /\ permits' = permits - (Len(tasks') - Len(tasks))

\* C3: at every moment the number of batch tasks launched by the scheduler and
\* not yet completed is at most max_concurrent_batches; the consumer never
\* launches a batch task without first acquiring a permit.
C3_BoundedConcurrency == [](C3_InFlightBounded) /\ [][C3_LaunchTakesPermit]_vars

\* the consumer waited in acquire with a batch in hand while the first batch
\* task held the last permit, and launched the next task once it was released:
\* the permits are all taken again, by the tasks in flight
C3_Witness ==
    /\ Len(tasks) = MaxConcurrentBatches + 1
    /\ 1 \in Completed
    /\ ~tasks[1].in_tasks
    /\ Cardinality(InFlight) = MaxConcurrentBatches
    /\ permits = 0

\* ------------------------------------------------------------------------
\* C6
\* ------------------------------------------------------------------------

\* the result carries a violated verdict with an action other than none
C6_Violating(result) ==
    /\ result.verdict # NoVerdict
    /\ result.verdict.violated
    /\ result.verdict.action # "none"

\* C6: on_decision is called at least once for every violating message, i.e.
\* for every submitted envelope for which the pipeline yields a violated
\* verdict with an action other than none: once the batch task that got the
\* results is over, a call was made for each such result.
C6_DecisionForEveryViolation ==
    \A i \in Completed :
        \A k \in DOMAIN tasks[i].results :
            C6_Violating(tasks[i].results[k]) =>
                \E d \in DOMAIN decisions :
                    decisions[d].result.message = tasks[i].results[k].message

\* ------------------------------------------------------------------------
\* C7
\* ------------------------------------------------------------------------

\* the incident row matches the result in (rule_id, chat_id, user_id,
\* message_id, action, priority)
C7_Matches(row, result) ==
    /\ row.rule_id = result.verdict.rule_code
    /\ row.chat_id = result.message.context.chat_id
    /\ row.user_id = result.message.context.user_id
    /\ row.message_id = result.message.context.message_id
    /\ row.action = result.verdict.action
    /\ row.priority = result.verdict.priority

\* no incident is stored for the message of a result
C7_NoIncidentFor(result) ==
    \A n \in DOMAIN incidents :
        ~ /\ incidents[n].chat_id = result.message.context.chat_id
          /\ incidents[n].user_id = result.message.context.user_id
          /\ incidents[n].message_id = result.message.context.message_id

\* C7 as stated: for every result with a non-null verdict that the pipeline
\* hands to the scheduler for a batch, once that batch's task has completed the
\* store holds an incident with matching (rule_id, chat_id, user_id,
\* message_id, action, priority); results with a null verdict produce no
\* incident.
C7_IncidentForEveryVerdict ==
    \A i \in Completed :
        \A k \in DOMAIN tasks[i].results :
            IF tasks[i].results[k].verdict # NoVerdict
            THEN \E n \in DOMAIN incidents : C7_Matches(incidents[n], tasks[i].results[k])
            ELSE C7_NoIncidentFor(tasks[i].results[k])

\* C7 amended: the same, for the batches whose record_batch_results call
\* returned without an error.
C7_IncidentWhenRecorded ==
    \A i \in Completed :
        \A k \in DOMAIN tasks[i].results :
            IF tasks[i].results[k].verdict # NoVerdict
            THEN tasks[i].recorded =>
                     \E n \in DOMAIN incidents : C7_Matches(incidents[n], tasks[i].results[k])
            ELSE C7_NoIncidentFor(tasks[i].results[k])

\* a batch of two results, the first with a verdict and the second without,
\* was recorded and its task is over; the table holds the one row
C7_Witness ==
    \E i \in Completed :
        /\ tasks[i].recorded
        /\ Len(tasks[i].results) = 2
        /\ tasks[i].results[1].verdict # NoVerdict
        /\ tasks[i].results[2].verdict = NoVerdict
        /\ Len(incidents) = 1
        /\ C7_Matches(incidents[1], tasks[i].results[1])

\* ------------------------------------------------------------------------
\* C11
\* ------------------------------------------------------------------------

\* every emitted batch is non-empty and within max_batch_size, a size batch
\* exactly of max_batch_size
C11_BatchSizes ==
    \A n \in DOMAIN emitted :
        /\ Len(emitted[n].items) >= 1
        /\ Len(emitted[n].items) <= MaxBatchSize
        /\ emitted[n].flush_reason = "size" => Len(emitted[n].items) = MaxBatchSize

\* the step emits the pending buffer as one batch of the reason when items are
\* pending, and nothing when the buffer is empty
C11_OneBatch(reason) ==
    IF pending = << >> THEN emitted' = emitted
    ELSE emitted' = Append(emitted, [items |-> pending, flush_reason |-> reason])

\* a timer or stop flush emits one batch or none; a submit that fills the
\* buffer has emitted the size batch, its own envelope last, when it returns,
\* and any other submit emits nothing
C11_FlushEvents ==
    /\ TimerFire => C11_OneBatch("timer")
    /\ BatcherStop => C11_OneBatch("stop")
    /\ Submit =>
          IF Len(pending) + 1 >= MaxBatchSize
          THEN /\ emitted' = Append(emitted,
                                    [items |-> Append(pending, Len(submitted) + 1),
                                     flush_reason |-> "size"])
               /\ pending' = << >>
          ELSE emitted' = emitted

\* C11: every batch the batcher emits is non-empty and holds at most
\* max_batch_size items; each flush event (size, timer or stop) emits exactly
\* one batch when items are pending and none when the buffer is empty; a batch
\* with flush_reason=size holds exactly max_batch_size items and is emitted
\* before the submit that filled the buffer returns.
C11_BatchInvariants == [](C11_BatchSizes) /\ [][C11_FlushEvents]_vars

\* a size batch and a timer batch were emitted, and a stop that found the
\* buffer empty emitted none
C11_Witness ==
    /\ drained
    /\ pending = << >>
    /\ Len(emitted) = 2
    /\ emitted[1].flush_reason = "size"
    /\ emitted[2].flush_reason = "timer"

\* ------------------------------------------------------------------------
\* C12
\* ------------------------------------------------------------------------

\* the stream so far was submissions only: no timer or stop flush has emitted
\* a batch
C12_SizeFlushesOnly ==
    \A n \in DOMAIN emitted : emitted[n].flush_reason = "size"

\* C12 as stated: for any stream of N submissions with max_batch_size=B and no
\* timer flush, the batcher emits ceil(N/B) size-flushes of exactly B items.
C12_CeilSizeFlushes ==
    C12_SizeFlushesOnly =>
        /\ Len(emitted) = (Len(submitted) + MaxBatchSize - 1) \div MaxBatchSize
        /\ \A n \in DOMAIN emitted : Len(emitted[n].items) = MaxBatchSize

\* C12 amended: for any stream of N submissions with max_batch_size=B and no
\* timer or stop flush, the batcher emits floor(N/B) size-flushes of exactly B
\* items, and the remaining N mod B items are pending.
C12_FloorSizeFlushes ==
    C12_SizeFlushesOnly =>
        /\ Len(emitted) = Len(submitted) \div MaxBatchSize
        /\ \A n \in DOMAIN emitted : Len(emitted[n].items) = MaxBatchSize
        /\ Len(pending) = Len(submitted) % MaxBatchSize

\* every envelope of the run was submitted with no timer or stop flush: all
\* batches are size batches and the odd one is pending
C12_Witness ==
    /\ Len(submitted) = MaxSubmit
    /\ C12_SizeFlushesOnly
    /\ Len(emitted) = MaxSubmit \div MaxBatchSize
    /\ Len(emitted) >= 2
    /\ Len(pending) = 1
    /\ ~stopped

\* ------------------------------------------------------------------------
\* C13
\* ------------------------------------------------------------------------

\* envelope e, the last submitted, went into an empty buffer
C13_AloneInBuffer(e) == Len(submitted) = e /\ pending = <<e>>

\* a timer batch holding exactly envelope e was emitted
C13_TimerBatchOf(e) ==
    \E n \in DOMAIN emitted : emitted[n] = [items |-> <<e>>, flush_reason |-> "timer"]

C14_AtStopReturn ==
    BatcherStop =>
        /\ pending' = << >>
        /\ timer' = "none"
        /\ ConcatItems(emitted') = submitted
        /\ IF pending = << >> THEN emitted' = emitted
           ELSE emitted' = Append(emitted, [items |-> pending, flush_reason |-> "stop"])

\* C14: when batcher.stop() returns, the pending buffer is empty, every
\* envelope submitted before stop() is in an emitted batch (those still
\* pending at stop() in one batch with flush_reason=stop), and the delay timer
\* is cancelled.
C14_StopFlushesAll == [][C14_AtStopReturn]_vars

\* a stop found one envelope pending behind a size batch, with the timer
\* armed, and has returned: the envelope is in a stop batch
C14_Witness ==
    /\ drained
    /\ stopped
    /\ pending = << >>
    /\ timer = "none"
    /\ Len(emitted) = 2
    /\ emitted[1].flush_reason = "size"
    /\ emitted[2] = [items |-> <<MaxBatchSize + 1>>, flush_reason |-> "stop"]
    /\ Len(submitted) = MaxBatchSize + 1

\* ------------------------------------------------------------------------
\* C15
\* ------------------------------------------------------------------------

\* a get() called once stop() has completed: the closed error when nothing is
\* queued, else the oldest queued batch; it does not suspend
C15_GetOnceStopped ==
    (GetCall /\ stopped /\ drained) =>
        IF queue = << >>
        THEN lastGet' = [kind |-> "closed"] /\ queue' = queue
        ELSE lastGet' = [kind |-> "batch", batch |-> Head(queue)] /\ queue' = Tail(queue)

\* C15: once batcher.stop() has completed and the batch queue is empty, every
\* further get() fails with the closed error instead of suspending; batches
\* still queued when stop() completed are returned by get() before that.
C15_ClosedAfterDrain == [][C15_GetOnceStopped]_vars

\* two batches were emitted, the last by stop(); both were taken by get() and the
\* next get() failed with the closed error
C15_Witness ==
    /\ stopped /\ drained
    /\ Len(emitted) = 2
    /\ emitted[2].flush_reason = "stop"
    /\ queue = << >>
    /\ lastGet = [kind |-> "closed"]

\* ------------------------------------------------------------------------
\* C16
\* ------------------------------------------------------------------------

\* the batch tasks the scheduler holds as unfinished: those in _tasks, whose
\* done callback has yet to run
C16_Unfinished == {i \in DOMAIN tasks : tasks[i].in_tasks}

\* the permits available and the unfinished batch tasks add up to
\* max_concurrent_batches
C16_PermitsBalance == permits + Cardinality(C16_Unfinished) = MaxConcurrentBatches

\* a task leaves _tasks only when it is over, giving back one permit, and
\* never again
C16_OneRelease ==
    \A i \in DOMAIN tasks :
        /\ ~tasks[i].in_tasks => ~tasks'[i].in_tasks
        /\ (tasks[i].in_tasks /\ ~tasks'[i].in_tasks) =>
               /\ i \in Completed
               /\ permits' = permits + 1

C17_PipelineRaised(i) ==
    \E n \in DOMAIN tasks[i].log : tasks[i].log[n].event = "batch_processing_failed"

\* the envelopes of the batch of task i
C17_Items(i) == Range(tasks[i].batch.items)

\* for a batch whose process_batch raised: no incident, no decision, and no
\* other batch task holds any of its envelopes
C17_BatchDropped ==
    \A i \in DOMAIN tasks :
        C17_PipelineRaised(i) =>
            /\ \A n \in DOMAIN incidents : incidents[n].message_id \notin C17_Items(i)
            /\ \A d \in DOMAIN decisions :
                   decisions[d].result.message.context.message_id \notin C17_Items(i)
            /\ \A j \in DOMAIN tasks : j # i => C17_Items(j) \cap C17_Items(i) = {}

\* the step in which process_batch raises logs the error, ends the batch task
\* normally and leaves the consumer and the queue as they are
C17_RaiseIsAbsorbed ==
    \A i \in DOMAIN tasks :
        TaskPipelineRaises(i) =>
            /\ C17_PipelineRaised(i)'
            /\ tasks'[i].pc = "done"
            /\ UNCHANGED <<consumer, running, queue, incidents, decisions>>

\* once process_batch has raised, the scheduler is not stuck: while it runs
\* with a batch on the queue or in the consumer's hand, its consumer or one of
\* its batch tasks can take a step
C17_ConsumerGoesOn ==
    (/\ \E i \in DOMAIN tasks : C17_PipelineRaised(i)
     /\ running
     /\ consumer.pc # "closed"
     /\ (queue # << >> \/ consumer.pc = "acquire"))
        => ENABLED SchedulerStep

C18_CallbackRaised(i, k) ==
    \E n \in DOMAIN tasks[i].log :
        tasks[i].log[n] = [event |-> "decision_callback_failed", idx |-> k]

\* the on_decision calls made for the k-th result of batch task i
C18_CallsFor(i, k) ==
    {d \in DOMAIN decisions : decisions[d].result.message = tasks[i].results[k].message}

\* where on_decision raised for a result it was called once for it, the task
\* has not failed, and once the task is over every later violating result of
\* the batch has had its call
C18_ErrorAbsorbed ==
    \A i \in DOMAIN tasks :
        \A k \in DOMAIN tasks[i].results :
            C18_CallbackRaised(i, k) =>
                /\ Cardinality(C18_CallsFor(i, k)) = 1
                /\ tasks[i].pc \in {"callback", "done"}
                /\ tasks[i].pc = "done" =>
                       \A m \in DOMAIN tasks[i].results :
                           (m > k /\ C6_Violating(tasks[i].results[m]))
                               => C18_CallsFor(i, m) # {}

\* the step in which on_decision raises takes the task to the callback of a
\* later result or to its normal end
C18_LoopGoesOn ==
    \A i \in DOMAIN tasks :
        TaskCallbackRaises(i) =>
            /\ \E n \in DOMAIN tasks'[i].log :
                   tasks'[i].log[n] = [event |-> "decision_callback_failed",
                                       idx |-> tasks[i].idx]
            /\ \/ tasks'[i].pc = "done"
               \/ tasks'[i].pc = "callback" /\ tasks'[i].idx > tasks[i].idx

\* C18: if on_decision raises for one result of a batch, the error is
\* absorbed: on_decision is not invoked again for that result, it is still
\* invoked for every later violating result of the same batch, and the batch
\* task completes without failure.
C18_SinkErrorAbsorbed == [](C18_ErrorAbsorbed) /\ [][C18_LoopGoesOn]_vars

\* on_decision raised for the first of two violating results of a batch; the
\* second had its call and the task ended normally
C18_Witness ==
    \E i \in DOMAIN tasks :
        /\ Len(tasks[i].results) = 2
        /\ C18_CallbackRaised(i, 1)
        /\ ~C18_CallbackRaised(i, 2)
        /\ Cardinality(C18_CallsFor(i, 1)) = 1
        /\ Cardinality(C18_CallsFor(i, 2)) = 1
        /\ tasks[i].pc = "done"
        /\ ~tasks[i].in_tasks

\* ------------------------------------------------------------------------
\* C19
\* ------------------------------------------------------------------------

\* record_batch_results has completed for batch task i: the call returned and
\* the table holds a row for every result of the batch that has a verdict
C19_RecordCompleted(i) ==
    /\ tasks[i].recorded
    /\ \A k \in DOMAIN tasks[i].results :
           tasks[i].results[k].verdict # NoVerdict =>
               \E n \in DOMAIN incidents : C7_Matches(incidents[n], tasks[i].results[k])

\* the batch tasks the result of an on_decision call belongs to
C19_TasksOf(call) ==
    {i \in DOMAIN tasks : \E k \in DOMAIN tasks[i].results :
                              tasks[i].results[k] = call.result}

\* every on_decision call made so far is for a result of a batch whose
\* record_batch_results call has completed
C19_CallsAfterRecord ==
    \A d \in DOMAIN decisions :
        /\ C19_TasksOf(decisions[d]) # {}
        /\ \A i \in C19_TasksOf(decisions[d]) : C19_RecordCompleted(i)

\* a step that calls on_decision is a step of a task that is past its await of
\* record_batch_results, and it leaves the rows of the batch in the table
C19_CallStep ==
    decisions' # decisions =>
        /\ Len(decisions') = Len(decisions) + 1
        /\ \A i \in DOMAIN tasks :
               (\E k \in DOMAIN tasks'[i].results :
                    tasks'[i].results[k] = decisions'[Len(decisions')].result)
                   => /\ tasks[i].pc \in {"record", "callback"}
                      /\ tasks'[i].recorded
                      /\ Len(incidents') >= Len(IncidentRows(tasks'[i].results))

\* C19: for every batch, each Decision Sink invocation for a result of that
\* batch happens after record_batch_results has completed for that batch.
C19_SinkAfterRecord == [](C19_CallsAfterRecord) /\ [][C19_CallStep]_vars

\* on_decision was called for both results of a recorded batch of two, and the
\* table holds the two rows of the batch
C19_Witness ==
    \E i \in DOMAIN tasks :
        /\ Len(tasks[i].results) = 2
        /\ C19_RecordCompleted(i)
        /\ Len(incidents) = 2
        /\ Len(decisions) = 2
        /\ \A d \in DOMAIN decisions : C19_TasksOf(decisions[d]) = {i}

\* ------------------------------------------------------------------------
\* C20
\* ------------------------------------------------------------------------

\* the steps in which the evaluate() awaited meets an error
C20_LayerMeetsError ==
    /\ pm.pc = "eval"
    /\ \E error \in LayerErrors(pipeLayers[pm.k].layer_type) :
           PipeLayerAbsorbs(error) \/ PipeLayerRaises(error)

\* such a step hands process_message no verdict for the layer, and
\* process_message goes on to the next layer or to its result
C20_ErrorStep ==
    C20_LayerMeetsError =>
        /\ returned' = Append(returned, NoVerdict)
        /\ pm'.pc \in {"eval", "done"}

\* C20: a failure inside a single layer never fails the pipeline: whatever
\* error a layer's evaluate meets for an envelope (external API failure,
\* malformed response, a rule pattern that cannot be compiled), the layer
\* yields no verdict for that evaluation and process_batch still returns a
\* result for every envelope of the batch (no process_message call of the
\* batch ends with an exception).
C20_LayerFailureAbsorbed == [](pm.pc # "raised") /\ [][C20_ErrorStep]_vars

\* ------------------------------------------------------------------------
\* C21
\* ------------------------------------------------------------------------

\* an add_rule call is between taking the service lock and its end
C21_CallInProgress == addCall.pc \in {"synth", "upsert", "register"}

\* the step in which classify_rule fails hands the adapter error to the caller
\* and changes neither the store nor the registry
C21_FailStep ==
    AddSynthFail =>
        /\ addResults' = Append(addResults, [kind |-> "raised", ov |-> addCall.ov,
                                             error |-> "OpenAIAdapterError"])
        /\ store' = store
        /\ registry' = registry

\* a call that raised left no rule of its own in the store or the registry
\* (the calls of the workload differ in action and chat)
C21_NoPartialState ==
    \A n \in DOMAIN addResults :
        addResults[n].kind = "raised" =>
            \A r \in Range(store) \cup Range(regLog) :
                ~(r.action = addResults[n].ov.action /\ r.chat_id = addResults[n].ov.chat_id)

\* the lock is free whenever no add_rule call is in progress: every call yet
\* to be made can take it
C21_LaterProceeds ==
    ~C21_CallInProgress => \A ov \in callerInput : ENABLED AddBegin(ov)

C22_RecordFailed(i) == tasks[i].pc = "failed" /\ ~tasks[i].recorded

\* C22: if the store write record_batch_results fails for a batch, the failure
\* is logged and only the incidents may be lost: the decisions for that
\* batch's violating messages are still handed to the Decision Sink (once the
\* task is over each of them has had its on_decision call) and the scheduler
\* keeps processing later batches.
C22_StoreFailureKeepsDecisions ==
    \A i \in DOMAIN tasks :
        (C22_RecordFailed(i) /\ ~tasks[i].in_tasks) =>
            /\ \E n \in DOMAIN tasks[i].log : tasks[i].log[n].event = "batch_task_failed"
            /\ \A k \in DOMAIN tasks[i].results :
                   C6_Violating(tasks[i].results[k]) =>
                       \E d \in DOMAIN decisions :
                           decisions[d].result.message = tasks[i].results[k].message

\* what does hold: the failure is logged by the done callback and the permit
\* comes back, so later batches are still dispatched
C22_FailureLoggedPermitBack ==
    \A i \in DOMAIN tasks :
        (C22_RecordFailed(i) /\ ~tasks[i].in_tasks) =>
            /\ \E n \in DOMAIN tasks[i].log : tasks[i].log[n].event = "batch_task_failed"
            /\ C16_PermitsBalance

\* ------------------------------------------------------------------------
\* C23
\* ------------------------------------------------------------------------

\* the caller's input is a rule in legal form: layer and rule_type given; a
\* regex rule with a non-empty pattern and no category, a category-layer rule
\* with a category of the catalog and no pattern, a contextual rule with a
\* category and no pattern
C23_LegalForm(ov) ==
    /\ ov.layer # Null
    /\ ov.rule_type # Null
    /\ CASE ov.layer = "regex" -> ~Falsy(ov.pattern) /\ ov.category = Null
         [] ov.layer = "omni" -> ov.category \in OMNI_VALID_CATEGORIES /\ ov.pattern = Null
         [] ov.layer = "chatgpt" -> ~Falsy(ov.category) /\ ov.pattern = Null

\* C23: feeding a rule already in legal form through add_rule (its layer,
\* rule_type, pattern, category and action given as caller input) produces a
\* rule with identical (layer, rule_type, pattern, category, action,
\* priority_bucket), for any output of the synthesizer: the fields are the
\* caller's and the priority bucket is the same whatever the synthesizer
\* answers.
C23_LegalRuleUnchanged ==
    \A n \in DOMAIN addResults :
        (addResults[n].kind = "returned" /\ C23_LegalForm(addResults[n].ov)) =>
            LET ov == addResults[n].ov
                rule == addResults[n].rule
            IN  /\ rule.layer = ov.layer
                /\ rule.rule_type = ov.rule_type
                /\ rule.pattern = ov.pattern
                /\ rule.category = ov.category
                /\ rule.action = ov.action
                /\ \A cls \in AllSynthResults :
                       BuildRule(ov, cls, rule.rule_id).priority = rule.priority

\* what does hold for a rule in legal form: layer, rule_type, pattern and
\* action are the caller's, and so is the category when the caller gave one
C23_CallerFieldsKept ==
    \A n \in DOMAIN addResults :
        (addResults[n].kind = "returned" /\ C23_LegalForm(addResults[n].ov)) =>
            LET ov == addResults[n].ov
                rule == addResults[n].rule
            IN  /\ rule.layer = ov.layer
                /\ rule.rule_type = ov.rule_type
                /\ rule.pattern = ov.pattern
                /\ rule.action = ov.action
                /\ ov.category # Null => rule.category = ov.category

\* ------------------------------------------------------------------------
\* C24
\* ------------------------------------------------------------------------

\* the on_decision calls made for envelope e
C24_CallsFor(e) ==
    {d \in DOMAIN decisions : decisions[d].result.message = MessageEnvelope(e)}

\* the incident rows stored for envelope e
C24_IncidentsFor(e) ==
    {n \in DOMAIN incidents : incidents[n].message_id = e}

\* the places (batch task, position) at which envelope e was dispatched
C24_PlacesOf(e) ==
    UNION {{<<i, k>> : k \in {x \in DOMAIN tasks[i].batch.items :
                                  tasks[i].batch.items[x] = e}} : i \in DOMAIN tasks}

\* batch task i went through pipeline, record and callbacks with no error
C24_NoError(i) == tasks[i].pc = "done" /\ tasks[i].recorded /\ tasks[i].log = << >>

\* C24: on_decision is invoked at most once per submitted envelope: no
\* envelope is processed in two batches and no decision is dispatched twice;
\* for a single violating envelope whose batch is processed without error
\* there is exactly one on_decision callback and exactly one stored incident.
C24_AtMostOnce ==
    /\ \A e \in Range(submitted) :
           /\ Cardinality(C24_PlacesOf(e)) <= 1
           /\ Cardinality(C24_CallsFor(e)) <= 1
    /\ \A i \in DOMAIN tasks :
           C24_NoError(i) =>
               \A k \in DOMAIN tasks[i].results :
                   C6_Violating(tasks[i].results[k]) =>
                       /\ Cardinality(C24_CallsFor(tasks[i].batch.items[k])) = 1
                       /\ Cardinality(C24_IncidentsFor(tasks[i].batch.items[k])) = 1

\* a batch of the one envelope submitted, found violating, went through
\* without error: one on_decision call, one incident
C24_Witness ==
    /\ Len(submitted) = 1
    /\ Len(tasks) = 1
    /\ tasks[1].batch.items = <<1>>
    /\ C24_NoError(1)
    /\ C6_Violating(tasks[1].results[1])
    /\ Len(decisions) = 1
    /\ Len(incidents) = 1
    /\ ~tasks[1].in_tasks

\* ------------------------------------------------------------------------
\* process_batch: the gather() of the process_message calls of a batch
\* ------------------------------------------------------------------------

MaxGatherItems == 3

\* a process_message call of the gather that has not finished
NoResult == [pending |-> TRUE]

\* mutant: the results are listed in the order the calls finished
Gather_AsCompleted(done, finished) == [k \in DOMAIN finished |-> done[finished[k]]]

\* asyncio.gather(*aws): the list of the results, in the order of aws
Gather(done, finished) == [k \in DOMAIN done |-> done[k]]

\* process_batch(batch, disabled_layers=disabled) is called: a process_message
\* call is made for every item and gather() awaits them all
BatchBegin(batch, disabled) ==
    /\ pb = NoCall
    /\ pb' = [pc |-> "gather", batch |-> batch, disabled |-> disabled,
              done |-> [k \in DOMAIN batch.items |-> NoResult], finished |-> << >>]
    /\ UNCHANGED <<pipeGiven, pipeLayers, pm, invoked, returned, layerCall>>
    /\ UNCHANGED notPipe

\* what gather() does when one of its calls has finished: it goes on waiting,
\* or with every call finished it hands the list to process_batch, which
\* returns it
GatherStep(call) ==
    IF \A k \in DOMAIN call.done : call.done[k] # NoResult
    THEN [pc |-> "returned", batch |-> call.batch, finished |-> call.finished,
          results |-> Gather(call.done, call.finished)]
    ELSE call

\* the process_message call for the k-th item finishes with a result, in
\* whatever order the calls finish
BatchMessageReturns(k) ==
    /\ pb.pc = "gather"
    /\ k \in DOMAIN pb.done
    /\ pb.done[k] = NoResult
    /\ \E result \in ProcessMessageResults(MessageEnvelope(pb.batch.items[k]), pb.disabled) :
           pb' = GatherStep([pb EXCEPT !.done[k] = result, !.finished = Append(@, k)])
    /\ UNCHANGED <<pipeGiven, pipeLayers, pm, invoked, returned, layerCall>>
    /\ UNCHANGED notPipe

\* the process_message call for the k-th item raises: gather() raises it at
\* once and process_batch lets it through
BatchMessageRaises(k) ==
    /\ pb.pc = "gather"
    /\ k \in DOMAIN pb.done
    /\ pb.done[k] = NoResult
    /\ pb' = [pc |-> "raised", batch |-> pb.batch, finished |-> pb.finished]
    /\ UNCHANGED <<pipeGiven, pipeLayers, pm, invoked, returned, layerCall>>
    /\ UNCHANGED notPipe

\* the batches handed to process_batch: one to MaxGatherItems envelopes
GatherBatches ==
    {MessageBatch([k \in 1..n |-> k], "size") : n \in 1..MaxGatherItems}

InitGather ==
    /\ RulesStart
    /\ callerInput = {}
    /\ BatcherStart
    /\ pipeGiven = SchedulerLayers
    /\ pipeLayers = SortLayers(pipeGiven)
    /\ PipeStart
    /\ SchedStart
    /\ AggIdle

NextGather ==
    \/ \E batch \in GatherBatches, disabled \in {{}, {"regex"}} : BatchBegin(batch, disabled)
    \/ \E k \in 1..MaxGatherItems : BatchMessageReturns(k)
    \/ \E k \in 1..MaxGatherItems : BatchMessageRaises(k)

SpecGather == InitGather /\ [][NextGather]_vars

\* ------------------------------------------------------------------------
\* C25
\* ------------------------------------------------------------------------

\* C25: the list returned by process_batch has exactly one result per item of
\* batch.items and in the same order (result i is for item i), whatever order
\* the concurrent per-envelope evaluations finish in.
C25_ResultsInItemOrder ==
    pb.pc = "returned" =>
        /\ Len(pb.results) = Len(pb.batch.items)
        /\ \A k \in DOMAIN pb.batch.items :
               pb.results[k].message = MessageEnvelope(pb.batch.items[k])

\* process_batch returned for a batch of three whose calls finished last item
\* first
C25_Witness ==
    /\ pb.pc = "returned"
    /\ Len(pb.batch.items) = 3
    /\ pb.finished = <<3, 2, 1>>
    /\ pb.results[1].verdict # NoVerdict
    /\ pb.results[3].verdict = NoVerdict

\* ------------------------------------------------------------------------
\* pause_layer and resume_layer while batches are processed
\* ------------------------------------------------------------------------

\* time.monotonic() runs from 0 to MaxNow
MaxNow == 3

\* the durations pause_layer is called with
PauseDurations == {1, 2}

\* mutant: the new deadline replaces the stored one
PauseLayerResult_Overwrite(until, layer, duration, t) ==
    DictPut(until, layer, t + duration)

\* pause_layer: the dict it leaves
PauseLayerResult(until, layer, duration, t) ==
    DictPut(until, layer, Max(t + duration, DictGet(until, layer, 0)))

\* resume_layer: the dict it leaves
ResumeLayerResult(until, layer) ==
    IF layer \in DOMAIN until THEN DictPop(until, layer) ELSE until

\* scheduler.pause_layer(layer, duration)
PauseLayer(layer, duration) ==
    /\ disabledUntil' = PauseLayerResult(disabledUntil, layer, duration, now)
    /\ UNCHANGED <<running, consumer, permits, tasks, now, incidents, decisions>>
    /\ UNCHANGED lifeVars
    /\ UNCHANGED <<rulesVars, batcherVars, pipeVars, aggVars>>

\* scheduler.resume_layer(layer)
ResumeLayer(layer) ==
    /\ disabledUntil' = ResumeLayerResult(disabledUntil, layer)
    /\ UNCHANGED <<running, consumer, permits, tasks, now, incidents, decisions>>
    /\ UNCHANGED lifeVars
    /\ UNCHANGED <<rulesVars, batcherVars, pipeVars, aggVars>>

\* time passes
Tick ==
    /\ now < MaxNow
    /\ now' = now + 1
    /\ UNCHANGED <<running, consumer, permits, tasks, disabledUntil, incidents, decisions>>
    /\ UNCHANGED lifeVars
    /\ UNCHANGED <<rulesVars, batcherVars, pipeVars, aggVars>>

\* _process_batch for a batch of one envelope, up to the first evaluate():
\* the disabled layers are read once, process_batch is called with them and
\* process_message runs to its first suspension (the call before it is over)
SnapshotBegin(message) ==
    /\ pm.pc \in {"none", "done"}
    /\ LET cur == CurrentDisabledLayers(disabledUntil, now)
       IN  /\ disabledUntil' = cur.until
           /\ pm' = PipeAdvance(message, cur.disabled, 1, << >>)
    /\ invoked' = IF pm'.pc = "eval" THEN <<pipeLayers[pm'.k].layer_type>> ELSE << >>
    /\ returned' = << >>
    /\ UNCHANGED <<pipeGiven, pipeLayers, pb, layerCall>>
    /\ UNCHANGED <<running, consumer, permits, tasks, now, incidents, decisions>>
    /\ UNCHANGED lifeVars
    /\ UNCHANGED <<rulesVars, batcherVars, aggVars>>

InitPause ==
    /\ RulesStart
    /\ callerInput = {}
    /\ BatcherStart
    /\ PipeIdle
    /\ SchedStart
    /\ AggIdle

NextPause ==
    \/ \E layer \in Layers, duration \in PauseDurations : PauseLayer(layer, duration)
    \/ \E layer \in Layers : ResumeLayer(layer)
    \/ Tick
    \/ SnapshotBegin(1)
    \/ /\ pm.pc = "eval"
       /\ \E verdict \in LayerVerdicts(pipeLayers[pm.k].layer_type) : PipeLayerReturns(verdict)

SpecPause == InitPause /\ [][NextPause]_vars

\* ------------------------------------------------------------------------
\* C26
\* ------------------------------------------------------------------------

\* the layer is inside its disabled window: paused, its deadline not reached,
\* not resumed
C26_InWindow(layer) == layer \in DOMAIN disabledUntil /\ disabledUntil[layer] > now

\* a step in which evaluate() of a layer is called
C26_Evaluates(layer) ==
    /\ pm'.pc = "eval"
    /\ pipeLayers[pm'.k].layer_type = layer
    /\ pm.pc = "eval" => pm'.k # pm.k

\* C26: for the disabled window of a layer, from pause_layer(layer, d) until
\* the earlier of its deadline and resume_layer(layer), the pipeline skips
\* that layer: no message is evaluated by that layer during the window.
C26_NoEvaluationInWindow ==
    [][\A layer \in Layers : C26_Evaluates(layer) => ~C26_InWindow(layer)]_vars

\* what does hold: a batch skips the layers that were inside their window when
\* its processing began
C26_SnapshotSkipped ==
    pm.pc \in {"eval", "done"} => \A n \in DOMAIN invoked : invoked[n] \notin pm.disabled

\* ------------------------------------------------------------------------
\* The API layers taken alone: one evaluate() call over a seeded registry
\* ------------------------------------------------------------------------

\* the longest rule list the registry is seeded with
MaxLayerRules == 2

\* best = None in _select_rule and _resolve_rule
NoRule == [is_none |-> TRUE]

\* the action configured in the rule with a given id
RuleActionOf(id) == IF id = 1 THEN "mute" ELSE IF id = 2 THEN "ban" ELSE "delete"

\* a rule of an API layer as the layers read it; aliases is
\* rule.metadata["aliases"], empty when the key is missing
LayerRule(id, layer, chat_id, category, priority, aliases) ==
    [rule_id |-> id, action |-> RuleActionOf(id), layer |-> layer,
     rule_type |-> IF layer = "omni" THEN "semantic" ELSE "contextual",
     chat_id |-> chat_id, pattern |-> Null, category |-> category,
     priority |-> priority, aliases |-> aliases]

\* the rule lists of at most MaxLayerRules rules with ids 1, 2, ... over a
\* pool of rules
RuleLists(pool) ==
    UNION {{rs \in [1..n -> pool] : \A k \in 1..n : rs[k].rule_id = k} : n \in 0..MaxLayerRules}

\* the rule service after registry.seed(rules), nothing else in progress
RulesSeeded(rules) ==
    /\ store = rules
    /\ registry = RegSeed(rules)
    /\ regLog = rules
    /\ addCall = Idle
    /\ rmCall = Idle
    /\ bootCall = Idle
    /\ nextId = Len(rules) + 1
    /\ readResult = NoRead
    /\ addResults = << >>
    /\ listed = NoCall
    /\ removed = {}

\* ------------------------------------------------------------------------
\* OmniModerationLayer (pipeline/layers/omni.py)
\* ------------------------------------------------------------------------

\* _invoke returned None: the API call raised OpenAIAdapterError
OmniNoResult == [api_error |-> TRUE]

\* OmniModerationResult: flagged, and the categories whose flag is true
OmniModerationResult(flagged, categories) == [flagged |-> flagged, categories |-> categories]

\* mutant: the first rule of a flagged category is taken
SelectRuleFrom_First(rules, categories, best) ==
    LET hits == {k \in DOMAIN rules :
                    ~Falsy(rules[k].category) /\ rules[k].category \in categories}
    IN  IF hits = {} THEN best
        ELSE rules[CHOOSE k \in hits : \A j \in hits : k <= j]

RECURSIVE SelectRuleFrom(_, _, _)
\* the loop of _select_rule over the rules left, best being the best so far
SelectRuleFrom(rules, categories, best) ==
    IF rules = << >> THEN best
    ELSE LET rule == Head(rules)
         IN  IF /\ ~Falsy(rule.category)
                /\ rule.category \in categories
                /\ (best = NoRule \/ rule.priority > best.priority)
             THEN SelectRuleFrom(Tail(rules), categories, rule)
             ELSE SelectRuleFrom(Tail(rules), categories, best)

\* _select_rule
SelectRule(reg, categories, chat_id) ==
    SelectRuleFrom(GetRulesForLayer(reg, "omni", chat_id), categories, NoRule)

\* _build_verdict
BuildVerdict(reg, result, chat_id) ==
    IF result = OmniNoResult THEN NoVerdict
    ELSE IF ~result.flagged THEN NoVerdict
    ELSE LET rule == SelectRule(reg, result.categories, chat_id)
         IN  IF rule = NoRule THEN NoVerdict
             ELSE ModerationVerdict("omni", rule.rule_id, rule.priority, rule.action, TRUE)

RECURSIVE OmniEvaluateFrom(_, _, _)
\* evaluate over the sources left (the text, then each image): the first
\* verdict built, or None
OmniEvaluateFrom(reg, sources, chat_id) ==
    IF sources = << >> THEN NoVerdict
    ELSE LET verdict == BuildVerdict(reg, Head(sources), chat_id)
         IN  IF verdict # NoVerdict THEN verdict
             ELSE OmniEvaluateFrom(reg, Tail(sources), chat_id)

\* await OmniModerationLayer.evaluate(message) for a message of chat chat_id
\* whose sources the classifier answers with sources
OmniEvaluate(chat_id, sources) ==
    /\ layerCall = NoCall
    /\ layerCall' = [pc |-> "returned", layer |-> "omni", chat_id |-> chat_id,
                     sources |-> sources,
                     verdict |-> OmniEvaluateFrom(registry, sources, chat_id)]
    /\ UNCHANGED <<pipeGiven, pipeLayers, pm, invoked, returned, pb>>
    /\ UNCHANGED notPipe

\* the categories the classifier flags in this check
OmniCategories == {"hate", "sexual"}

\* the omni rules the registry is seeded from
OmniRulePool ==
    {LayerRule(id, "omni", chat_id, category, priority, {}) :
        id \in 1..MaxLayerRules, chat_id \in {Null, "c1", "c2"},
        category \in OmniCategories \cup {Null}, priority \in {PRIO_OTHER, PRIO_HATE}}

\* what the classifier can answer for one source
OmniSourceResults ==
    {OmniNoResult} \cup
    {OmniModerationResult(flagged, categories) :
        flagged \in BOOLEAN, categories \in SUBSET OmniCategories}

\* the answers for a message with one or two sources
OmniSources == UNION {[1..n -> OmniSourceResults] : n \in 1..2}

InitOmni ==
    /\ \E rules \in RuleLists(OmniRulePool) : RulesSeeded(rules)
    /\ callerInput = {}
    /\ BatcherStart
    /\ PipeIdle
    /\ SchedStart
    /\ AggIdle

NextOmni == \E sources \in OmniSources : OmniEvaluate("c1", sources)

SpecOmni == InitOmni /\ [][NextOmni]_vars

\* ------------------------------------------------------------------------
\* C27
\* ------------------------------------------------------------------------

\* the category-layer rules in scope of the message: global plus its chat
C27_Scope ==
    {r \in Range(regLog) : r.layer = "omni" /\ r.chat_id \in {Null, layerCall.chat_id}}

\* the rules in scope whose category the classifier flagged for a source
C27_Matching(source) ==
    IF source = OmniNoResult THEN {}
    ELSE IF ~source.flagged THEN {}
    ELSE {r \in C27_Scope : r.category \in source.categories}

\* the sources that decide the verdict: the first one with a rule to cite
C27_Deciding ==
    {n \in DOMAIN layerCall.sources :
        /\ C27_Matching(layerCall.sources[n]) # {}
        /\ \A j \in 1..(n - 1) : C27_Matching(layerCall.sources[j]) = {}}

\* C27: when the classifier flags a source of a message, the Category layer's
\* verdict cites the rule with the highest priority among the category-layer
\* rules (global plus the message's chat) whose category is one of the
\* flagged categories; if no such rule exists the layer returns null and no
\* incident is recorded for the API flag alone.
C27_CitesHighestPriorityRule ==
    (layerCall.pc = "returned" /\ layerCall.layer = "omni") =>
        IF C27_Deciding = {}
        THEN /\ layerCall.verdict = NoVerdict
             /\ IncidentRows(<<ModerationResult(MessageEnvelope(1), layerCall.verdict,
                                                <<"omni">>)>>) = << >>
        ELSE \A n \in C27_Deciding :
                 \E r \in C27_Matching(layerCall.sources[n]) :
                     /\ \A q \in C27_Matching(layerCall.sources[n]) : q.priority <= r.priority
                     /\ layerCall.verdict =
                            ModerationVerdict("omni", r.rule_id, r.priority, r.action, TRUE)

\* the registry holds a global rule of priority OTHER before a rule of the
\* message's chat of priority HATE, both of flagged categories, and a rule of
\* another chat; the verdict cites the second rule
C27_Witness ==
    /\ layerCall.pc = "returned"
    /\ layerCall.layer = "omni"
    /\ Len(regLog) = 2
    /\ regLog[1].chat_id = Null /\ regLog[1].priority = PRIO_OTHER
    /\ regLog[2].chat_id = "c1" /\ regLog[2].priority = PRIO_HATE
    /\ regLog[1].category = "hate" /\ regLog[2].category = "sexual"
    /\ Len(layerCall.sources) = 1
    /\ layerCall.sources[1] = OmniModerationResult(TRUE, {"hate", "sexual"})
    /\ layerCall.verdict # NoVerdict
    /\ layerCall.verdict.rule_code = 2

\* ------------------------------------------------------------------------
\* ChatGPTLayer (pipeline/layers/chatgpt.py)
\* ------------------------------------------------------------------------

\* str.lower() on the strings of this check
Lower(str) ==
    IF str \in {"Spam", "SPAM", "spam"} THEN "spam"
    ELSE IF str \in {"Ads", "ADS", "ads"} THEN "ads"
    ELSE str

\* the completion carries a JSON object with these keys (category Null: the
\* key is missing)
GptAnswer(violation, category, action) ==
    [kind |-> "json", violation |-> violation, category |-> category, action |-> action]

\* one step of the loop of _resolve_rule: does the rule match the category
RuleMatches(rule, category) ==
    \/ ~Falsy(rule.category) /\ Lower(rule.category) = category
    \/ rule.aliases # {} /\ category \in {Lower(alias) : alias \in rule.aliases}

RECURSIVE ResolveRuleFrom(_, _, _)
\* the loop of _resolve_rule over the rules left, best being the best so far
ResolveRuleFrom(rules, category, best) ==
    IF rules = << >> THEN best
    ELSE LET rule == Head(rules)
         IN  IF RuleMatches(rule, category) /\ (best = NoRule \/ rule.priority > best.priority)
             THEN ResolveRuleFrom(Tail(rules), category, rule)
             ELSE ResolveRuleFrom(Tail(rules), category, best)

\* _resolve_rule
ResolveRule(reg, category, chat_id) ==
    ResolveRuleFrom(GetRulesForLayer(reg, "chatgpt", chat_id), category, NoRule)

\* evaluate from the answer of the API on: None for an API error, a truncated
\* completion, a completion that is not JSON, no violation, or no rule
GptVerdict(reg, completion, chat_id) ==
    IF completion.kind # "json" THEN NoVerdict
    ELSE IF ~completion.violation THEN NoVerdict
    ELSE LET category == IF completion.category = Null THEN "other"
                         ELSE Lower(completion.category)
             rule == ResolveRule(reg, category, chat_id)
         IN  IF rule = NoRule THEN NoVerdict
             ELSE ModerationVerdict("chatgpt", rule.rule_id, rule.priority, rule.action, TRUE)

\* await ChatGPTLayer.evaluate(message) for a message of chat chat_id when the
\* API answers with completion
ChatGPTEvaluate(chat_id, completion) ==
    /\ layerCall = NoCall
    /\ layerCall' = [pc |-> "returned", layer |-> "chatgpt", chat_id |-> chat_id,
                     completion |-> completion,
                     verdict |-> GptVerdict(registry, completion, chat_id)]
    /\ UNCHANGED <<pipeGiven, pipeLayers, pm, invoked, returned, pb>>
    /\ UNCHANGED notPipe

\* the contextual rules the registry is seeded from
GptRulePool ==
    {LayerRule(id, "chatgpt", chat_id, category, priority, aliases) :
        id \in 1..MaxLayerRules, chat_id \in {Null, "c1"},
        category \in {"Spam", "ads", Null}, priority \in {PRIO_OTHER, PRIO_HATE},
        aliases \in {{}, {"SPAM"}}}

\* what the API call can come to
GptCompletions ==
    {[kind |-> "api_error"], [kind |-> "length"], [kind |-> "invalid_json"]} \cup
    {GptAnswer(violation, category, action) :
        violation \in BOOLEAN, category \in {"spam", "Spam", "ads", "scam", Null},
        action \in {"warn", "none"}}

InitGpt ==
    /\ \E rules \in RuleLists(GptRulePool) : RulesSeeded(rules)
    /\ callerInput = {}
    /\ BatcherStart
    /\ PipeIdle
    /\ SchedStart
    /\ AggIdle

NextGpt == \E completion \in GptCompletions : ChatGPTEvaluate("c1", completion)

SpecGpt == InitGpt /\ [][NextGpt]_vars

\* ------------------------------------------------------------------------
\* C28
\* ------------------------------------------------------------------------

\* the LLM reported violation=true with a category
C28_Reported ==
    /\ layerCall.pc = "returned"
    /\ layerCall.layer = "chatgpt"
    /\ layerCall.completion.kind = "json"
    /\ layerCall.completion.violation
    /\ layerCall.completion.category # Null

\* the contextual rules in scope of the message: global plus its chat
C28_Scope ==
    {r \in Range(regLog) : r.layer = "chatgpt" /\ r.chat_id \in {Null, layerCall.chat_id}}

\* the rules whose category is the reported one, case aside
C28_Exact ==
    {r \in C28_Scope : r.category # Null
                       /\ Lower(r.category) = Lower(layerCall.completion.category)}

\* the rules one of whose aliases is the reported category, case aside
C28_ByAlias ==
    {r \in C28_Scope : \E alias \in r.aliases :
                           Lower(alias) = Lower(layerCall.completion.category)}

\* the verdict cites a rule of highest priority among candidates, with the
\* rule's id, priority and configured action
C28_Cites(candidates) ==
    \E r \in candidates :
        /\ \A q \in candidates : q.priority <= r.priority
        /\ layerCall.verdict = ModerationVerdict("chatgpt", r.rule_id, r.priority, r.action, TRUE)

\* C28: when the LLM reports violation=true with category c, the Contextual
\* layer resolves the rule by exact case-insensitive match on rule.category,
\* else (when no rule's category matches) via rule.metadata.aliases, ties
\* broken by highest priority; the verdict carries that rule's id, priority
\* and configured action (not the action the LLM suggested); if no rule
\* matches the layer returns null.
C28_ExactElseAlias ==
    C28_Reported =>
        IF C28_Exact # {} THEN C28_Cites(C28_Exact)
        ELSE IF C28_ByAlias # {} THEN C28_Cites(C28_ByAlias)
        ELSE layerCall.verdict = NoVerdict

\* what does hold: a rule matches by its category or by an alias alike, and the
\* verdict cites a rule of highest priority among all of them
C28_AnyMatchHighestPriority ==
    C28_Reported =>
        IF C28_Exact \cup C28_ByAlias # {} THEN C28_Cites(C28_Exact \cup C28_ByAlias)
        ELSE layerCall.verdict = NoVerdict

\* ------------------------------------------------------------------------
\* C29
\* ------------------------------------------------------------------------

\* C29: every rule produced by add_rule satisfies the layer-required-fields
\* invariant for the regex and contextual layers: a regex-layer rule has a
\* non-empty pattern and no category; a contextual-layer rule has a category
\* and a null pattern (including rules demoted to contextual from the regex
\* or category layer).
C29_RequiredFields ==
    \A n \in DOMAIN addResults :
        addResults[n].kind = "returned" =>
            LET rule == addResults[n].rule
            IN  /\ rule.layer = "regex" => ~Falsy(rule.pattern) /\ Falsy(rule.category)
                /\ rule.layer = "chatgpt" => ~Falsy(rule.category) /\ rule.pattern = Null

\* what does hold: a regex-layer rule has a non-empty pattern, and a
\* contextual-layer rule has no non-empty pattern
C29_PatternSide ==
    \A n \in DOMAIN addResults :
        addResults[n].kind = "returned" =>
            LET rule == addResults[n].rule
            IN  /\ rule.layer = "regex" => ~Falsy(rule.pattern)
                /\ rule.layer = "chatgpt" => Falsy(rule.pattern)

\* ------------------------------------------------------------------------
\* RuleService.list_rules over a store holding rules of several scopes
\* ------------------------------------------------------------------------

RECURSIVE RulesOfChat(_, _)
\* [rule for rule in rules if rule.chat_id in (None, chat_id)]
RulesOfChat(rules, chat_id) ==
    IF rules = << >> THEN << >>
    ELSE IF Head(rules).chat_id \in {Null, chat_id}
         THEN <<Head(rules)>> \o RulesOfChat(Tail(rules), chat_id)
         ELSE RulesOfChat(Tail(rules), chat_id)

\* list_rules: what it returns for the rows the store lists
ListRules(st, chat_id) ==
    IF chat_id = Null THEN StoreList(st) ELSE RulesOfChat(StoreList(st), chat_id)

\* await service.list_rules(chat_id)
ListRulesCall(chat_id) ==
    /\ listed' = [pc |-> "returned", chat_id |-> chat_id, rules |-> ListRules(store, chat_id)]
    /\ UNCHANGED <<store, registry, regLog, callerInput, addCall, rmCall, bootCall, nextId,
                   readResult, addResults, removed>>
    /\ UNCHANGED notRules

\* the rules the store is filled from: global, of chat c1, of chat c2
StoredRulePool ==
    {LayerRule(id, layer, chat_id, "spam", PRIO_SPAM, {}) :
        id \in 1..MaxLayerRules, layer \in {"omni", "chatgpt"}, chat_id \in {Null, "c1", "c2"}}

InitListRules ==
    /\ \E rules \in RuleLists(StoredRulePool) : RulesSeeded(rules)
    /\ callerInput = {}
    /\ BatcherStart
    /\ PipeIdle
    /\ SchedStart
    /\ AggIdle

NextListRules == \E chat_id \in {Null, "c1", "c2"} : ListRulesCall(chat_id)

SpecListRules == InitListRules /\ [][NextListRules]_vars

\* ------------------------------------------------------------------------
\* C30
\* ------------------------------------------------------------------------

\* the call returned exactly the stored rules of the given scopes, each once
C30_ReturnedScopes(scopes) ==
    /\ Range(listed.rules) = {r \in Range(store) : r.chat_id \in scopes}
    /\ Len(listed.rules) = Cardinality({r \in Range(store) : r.chat_id \in scopes})

\* C30: RuleService.list_rules(chat_id=null) returns the global rules, i.e.
\* the stored rules with no chat scope; list_rules(chat_id=c) returns exactly
\* the stored rules whose chat_id is null or c.
C30_ListRulesByScope ==
    listed.pc = "returned" =>
        IF listed.chat_id = Null
        THEN C30_ReturnedScopes({Null})
        ELSE C30_ReturnedScopes({Null, listed.chat_id})

\* what does hold: without a chat_id every stored rule is returned, whatever
\* its scope; with one, the global rules and that chat's
C30_AllWhenNoChat ==
    listed.pc = "returned" =>
        IF listed.chat_id = Null
        THEN listed.rules = store
        ELSE C30_ReturnedScopes({Null, listed.chat_id})

\* ------------------------------------------------------------------------
\* C31
\* ------------------------------------------------------------------------

\* C31: batcher.stop() prevents new timers: after stop() has been called (and
\* until start() is called again) no delay timer is armed, so no batch with
\* flush_reason=timer is emitted after stop().
C31_NoTimerWhileStopped == stopped => timer # "armed"

\* the same, of the batches: none is emitted by the timer while stopped
C31_NoTimerBatchWhileStopped ==
    [][stopped /\ Len(emitted') > Len(emitted)
          => emitted'[Len(emitted')].flush_reason # "timer"]_vars

\* what does hold: stop() itself leaves no timer armed and nothing pending
C31_StopLeavesNoTimer ==
    [][~stopped /\ stopped' => timer' = "none" /\ pending' = << >>]_vars

\* ------------------------------------------------------------------------
\* C32
\* ------------------------------------------------------------------------

\* a timer is live exactly while the buffer holds something
C32_LiveWithBuffer == (timer = "armed") <=> (pending # << >>)

\* the step that puts the first item into an empty buffer arms a timer that
\* was not there before; the step that empties the buffer leaves none
C32_CycleStep ==
    /\ pending = << >> /\ pending' # << >> => timer # "armed" /\ timer' = "armed"
    /\ pending # << >> /\ pending' = << >> => timer = "armed" /\ timer' = "none"

\* a batch the timer emits holds the items of the cycle the timer was armed in
C32_TimerStep ==
    Len(emitted') > Len(emitted) /\ emitted'[Len(emitted')].flush_reason = "timer"
        => timer = "armed" /\ emitted'[Len(emitted')].items = pending

\* C32: the delay timer is single-shot per accumulation cycle: it is armed
\* when the buffer goes from empty to one item, a timer is live whenever the
\* buffer is non-empty, and the flush that empties the buffer cancels it, so
\* a timer armed in one cycle never flushes items of a later cycle.
C32_TimerSingleShot ==
    [](C32_LiveWithBuffer) /\ [][C32_CycleStep /\ C32_TimerStep]_vars

\* a second cycle's timer is live after a size flush cancelled the first
C32_Witness ==
    /\ timer = "armed"
    /\ Len(pending) = 1
    /\ \E n \in DOMAIN emitted : emitted[n].flush_reason = "size"
    /\ \E n \in DOMAIN emitted : emitted[n].flush_reason = "timer"

\* ------------------------------------------------------------------------
\* C33
\* ------------------------------------------------------------------------

\* pause_layer(layer, duration): the deadline stored afterwards is the later
\* of the one stored before and now + duration, and never an earlier one
C33_PauseStep(layer, duration) ==
    PauseLayer(layer, duration) =>
        /\ layer \in DOMAIN disabledUntil'
        /\ IF layer \in DOMAIN disabledUntil /\ disabledUntil[layer] > now + duration
           THEN disabledUntil'[layer] = disabledUntil[layer]
           ELSE disabledUntil'[layer] = now + duration
        /\ layer \in DOMAIN disabledUntil => disabledUntil'[layer] >= disabledUntil[layer]
        /\ \A other \in Layers \ {layer} :
               /\ (other \in DOMAIN disabledUntil') = (other \in DOMAIN disabledUntil)
               /\ other \in DOMAIN disabledUntil => disabledUntil'[other] = disabledUntil[other]

\* resume_layer(layer): no deadline is stored for the layer afterwards
C33_ResumeStep(layer) == ResumeLayer(layer) => layer \notin DOMAIN disabledUntil'

\* a batch begun when a layer has no deadline, or one that is reached, does not
\* skip the layer, and a reached deadline is no longer stored; a batch begun
\* before a layer's deadline skips it
C33_BatchStep(layer) ==
    SnapshotBegin(1) =>
        IF layer \in DOMAIN disabledUntil /\ disabledUntil[layer] > now
        THEN layer \in pm'.disabled /\ layer \in DOMAIN disabledUntil'
        ELSE layer \notin pm'.disabled /\ layer \notin DOMAIN disabledUntil'

\* C33: pause_layer installs or extends and never shortens a pause: the
\* stored deadline becomes the maximum of the existing deadline and
\* now+duration; once the deadline has passed the layer is enabled again for
\* batches started afterwards without any call, its expired entry being
\* removed; resume_layer clears the deadline so that batches started
\* afterwards evaluate the layer.
C33_PauseExtendsResumeClears ==
    [][/\ \A layer \in Layers, duration \in PauseDurations : C33_PauseStep(layer, duration)
       /\ \A layer \in Layers : C33_ResumeStep(layer) /\ C33_BatchStep(layer)]_vars

\* a batch begun after time passed skips a layer still paused and evaluates
\* one that has no deadline any more
C33_Witness ==
    \E paused \in Layers, other \in Layers :
        /\ now > 0
        /\ paused \in DOMAIN disabledUntil
        /\ disabledUntil[paused] = MaxNow
        /\ disabledUntil[paused] > now
        /\ other \notin DOMAIN disabledUntil
        /\ pm.pc = "eval"
        /\ paused \in pm.disabled
        /\ pipeLayers[pm.k].layer_type = other

\* ------------------------------------------------------------------------
\* start() and stop() of the scheduler called by several callers: a call
\* suspended at an await is overlapped by the other calls
\* ------------------------------------------------------------------------

\* the number of start() calls made in a run
MaxStartCalls == 2

\* the _run task create_task(self._run()) makes
RunTask == [pc |-> "ready"]

\* Task.cancel() on a _run task: one that is suspended (or has yet to run)
\* ends cancelled, with the batch it holds; one that is over is left as it is
CancelRun(task) ==
    IF task.pc \in {"ready", "get", "acquire"} THEN [pc |-> "cancelled"] ELSE task

\* start() up to its await of pipeline.warmup(): nothing when running
StartCall ==
    /\ Len(startCalls) < MaxStartCalls
    /\ startCalls' = Append(startCalls, IF running THEN "returned" ELSE "warmup")
    /\ UNCHANGED <<running, consumer, permits, tasks, disabledUntil, now, incidents, decisions>>
    /\ UNCHANGED <<consumers, mainTask, stopCall>>
    /\ UNCHANGED <<rulesVars, batcherVars, pipeVars, aggVars>>

\* warmup() returns to the s-th start() call: _running is set, a _run task is
\* created and becomes _main_task
StartWarmupReturns(s) ==
    /\ startCalls[s] = "warmup"
    /\ running' = TRUE
    /\ consumers' = Append(consumers, RunTask)
    /\ mainTask' = Len(consumers) + 1
    /\ startCalls' = [startCalls EXCEPT ![s] = "started"]
    /\ UNCHANGED <<consumer, permits, tasks, disabledUntil, now, incidents, decisions, stopCall>>
    /\ UNCHANGED <<rulesVars, batcherVars, pipeVars, aggVars>>

\* warmup() raises (a pattern that does not compile): start() raises
StartWarmupRaises(s) ==
    /\ startCalls[s] = "warmup"
    /\ startCalls' = [startCalls EXCEPT ![s] = "raised"]
    /\ UNCHANGED <<running, consumer, permits, tasks, disabledUntil, now, incidents, decisions>>
    /\ UNCHANGED <<consumers, mainTask, stopCall>>
    /\ UNCHANGED <<rulesVars, batcherVars, pipeVars, aggVars>>

\* gather(*self._tasks, return_exceptions=True) is over: stop() returns, a
\* failed task's exception being one of the values gathered
StopReturned(call, ts) ==
    [pc |-> "returned", outcome |-> "returned", waited |-> call.waited,
     starts |-> call.starts, warming |-> call.warming, launched |-> Len(ts)]

\* stop() up to its await of gather: _running is cleared, _main_task is
\* cancelled; with _tasks empty the gather is over at once
StopCall ==
    /\ stopCall.pc # "gather"
    /\ running' = FALSE
    /\ consumers' = IF mainTask = 0 THEN consumers
                    ELSE [consumers EXCEPT ![mainTask] = CancelRun(@)]
    /\ LET call == [pc |-> "gather",
                    waited |-> {i \in DOMAIN tasks : tasks[i].in_tasks},
                    starts |-> Len(startCalls),
                    warming |-> {s \in DOMAIN startCalls : startCalls[s] = "warmup"}]
       IN  stopCall' = IF call.waited = {} THEN StopReturned(call, tasks) ELSE call
    /\ UNCHANGED <<consumer, permits, tasks, disabledUntil, now, incidents, decisions>>
    /\ UNCHANGED <<startCalls, mainTask>>
    /\ UNCHANGED <<rulesVars, batcherVars, pipeVars, aggVars>>

\* the tasks gathered are all over and their done callbacks have run: stop()
\* returns
StopReturn ==
    /\ stopCall.pc = "gather"
    /\ \A i \in stopCall.waited : ~tasks[i].in_tasks
    /\ stopCall' = StopReturned(stopCall, tasks)
    /\ UNCHANGED <<running, consumer, permits, tasks, disabledUntil, now, incidents, decisions>>
    /\ UNCHANGED <<startCalls, consumers, mainTask>>
    /\ UNCHANGED <<rulesVars, batcherVars, pipeVars, aggVars>>

\* the fields the n-th _run task works on, as one value
RunState(n) ==
    [queue |-> queue, permits |-> permits, tasks |-> tasks, consumer |-> consumers[n]]

\* the n-th _run task ran from c to its next suspension
RunRan(n, c) ==
    /\ queue' = c.queue
    /\ permits' = c.permits
    /\ tasks' = c.tasks
    /\ consumers' = [consumers EXCEPT ![n] = c.consumer]
    /\ UNCHANGED <<running, consumer, disabledUntil, now, incidents, decisions>>
    /\ UNCHANGED <<startCalls, mainTask, stopCall>>
    /\ UNCHANGED <<pending, timer, stopped, drained, submitted, emitted, lastGet>>
    /\ UNCHANGED <<rulesVars, pipeVars, aggVars>>

\* the n-th _run task runs for the first time
RunFirstRun(n) ==
    /\ consumers[n].pc = "ready"
    /\ RunRan(n, ConsumerLoop(RunState(n)))

\* the n-th _run task, suspended in batcher.get(), is woken by a batch
RunGetWake(n) ==
    /\ consumers[n].pc = "get"
    /\ queue # << >>
    /\ LET c1 == [RunState(n) EXCEPT !.queue = Tail(@)]
       IN  RunRan(n, IF SemaphoreLocked(permits)
                     THEN [c1 EXCEPT !.consumer = [pc |-> "acquire", batch |-> Head(queue)]]
                     ELSE ConsumerLoop(Launch(c1, Head(queue))))

\* the n-th _run task, suspended in acquire(), gets a permit
RunAcquireWake(n) ==
    /\ consumers[n].pc = "acquire"
    /\ permits > 0
    /\ RunRan(n, ConsumerLoop(Launch(RunState(n), consumers[n].batch)))

InitLifecycle ==
    /\ RulesStart
    /\ callerInput = {}
    /\ BatcherStart
    /\ pipeGiven = SchedulerLayers
    /\ pipeLayers = SortLayers(pipeGiven)
    /\ PipeStart
    /\ SchedStart
    /\ AggIdle

NextLifecycle ==
    \/ Len(submitted) < MaxSchedSubmit /\ Submit
    \/ TimerFire
    \/ StartCall
    \/ \E s \in DOMAIN startCalls : StartWarmupReturns(s)
    \/ \E s \in DOMAIN startCalls : StartWarmupRaises(s)
    \/ StopCall
    \/ StopReturn
    \/ \E n \in DOMAIN consumers : RunFirstRun(n)
    \/ \E n \in DOMAIN consumers : RunGetWake(n)
    \/ \E n \in DOMAIN consumers : RunAcquireWake(n)
    \/ \E i \in DOMAIN tasks : TaskStart(i)
    \/ \E i \in DOMAIN tasks : TaskPipelineReturns(i)
    \/ \E i \in DOMAIN tasks : TaskPipelineRaises(i)
    \/ \E i \in DOMAIN tasks : TaskRecordReturns(i)
    \/ \E i \in DOMAIN tasks : TaskRecordRaises(i)
    \/ \E i \in DOMAIN tasks : TaskCallbackReturns(i)
    \/ \E i \in DOMAIN tasks : TaskCallbackRaises(i)
    \/ \E i \in DOMAIN tasks : OnTaskDone(i)

SpecLifecycle == InitLifecycle /\ [][NextLifecycle]_vars

\* ------------------------------------------------------------------------
\* C34
\* ------------------------------------------------------------------------

\* stop() has returned, no start() call was in progress when it was called and
\* none has been made since
C34_StopReturned ==
    /\ stopCall.pc = "returned"
    /\ stopCall.warming = {}
    /\ stopCall.starts = Len(startCalls)

\* C34: when scheduler.stop() returns, every batch task launched before it has
\* completed, a failure inside such a task is not raised to the caller of
\* stop(), and no batch task is launched afterwards.
C34_StopWaitsAndEnds ==
    C34_StopReturned =>
        /\ \A i \in 1..stopCall.launched : tasks[i].pc \in {"done", "failed"}
        /\ stopCall.outcome = "returned"
        /\ Len(tasks) = stopCall.launched

\* what does hold: the tasks that were in _tasks when stop() was called are
\* over when it returns, and their failures are not raised
C34_GatheredTasksOver ==
    stopCall.pc = "returned" =>
        /\ \A i \in stopCall.waited : tasks[i].pc \in {"done", "failed"} /\ ~tasks[i].in_tasks
        /\ stopCall.outcome = "returned"

\* and C34 as stated holds of the runs in which one _run task was created
C34_HoldsWithOneRunTask == Len(consumers) <= 1 => C34_StopWaitsAndEnds

\* ------------------------------------------------------------------------
\* C35
\* ------------------------------------------------------------------------

\* the _run tasks that take batches: created and neither cancelled nor over
C35_Live == {n \in DOMAIN consumers : consumers[n].pc \in {"ready", "get", "acquire"}}

\* C35: the scheduler runs a single consumer task: for any interleaving of
\* start() and stop() calls, at most one consumer task is taking batches from
\* the batcher at any time.
C35_SingleConsumer == Cardinality(C35_Live) <= 1

\* what does hold: a start() call that finds the scheduler running creates
\* no task, and _main_task is the task created last
C35_MainTaskIsLast == mainTask = Len(consumers)

\* ------------------------------------------------------------------------
\* add_rule over the priorities the synthesizer can return
\* ------------------------------------------------------------------------

\* the integers classify_rule returns as priority: int(parsed["priority"]) is
\* not bounded by the adapter
SynthPriorities == -3..103

\* add_rule calls that leave a field to the synthesizer
PriorityOverrides ==
    { [layer |-> Null, rule_type |-> Null, pattern |-> Null, category |-> Null,
       chat_id |-> Null, action |-> "warn"],
      [layer |-> "regex", rule_type |-> "regex", pattern |-> "p", category |-> Null,
       chat_id |-> Null, action |-> "warn"] }

\* what classify_rule returns for them
PrioritySynthResults ==
    [present : {TRUE}, layer : {"chatgpt"}, rule_type : {"contextual"},
     regex : {Null}, category : {"ads"}, priority : SynthPriorities]

InitPriority ==
    /\ RulesStart
    /\ callerInput \in {{ov} : ov \in PriorityOverrides}
    /\ BatcherStart
    /\ PipeIdle
    /\ SchedStart
    /\ AggIdle

NextPriority ==
    \/ \E ov \in callerInput : AddBegin(ov)
    \/ \E cls \in PrioritySynthResults : AddSynthReturn(cls)
    \/ AddSynthFail
    \/ AddUpsert
    \/ AddRegister

SpecPriority == InitPriority /\ [][NextPriority]_vars

\* ------------------------------------------------------------------------
\* C36
\* ------------------------------------------------------------------------

\* the rank of the bucket the claim gives a priority p
C36_Bucket(p) ==
    IF p >= 90 THEN 100
    ELSE IF p >= 70 THEN 80
    ELSE IF p >= 60 THEN 70
    ELSE IF p >= 40 THEN 50
    ELSE 10

\* C36: for every integer priority p returned by the synthesizer, add_rule
\* stores the bucket THREATS if p>=90, NSFW if p>=70, HATE if p>=60, SPAM if
\* p>=40, else OTHER; the stored priority is always one of the five bucket
\* ranks 100, 80, 70, 50, 10.
C36_PriorityBuckets ==
    /\ \A i \in DOMAIN store : store[i].priority \in {100, 80, 70, 50, 10}
    /\ addCall.pc = "register" /\ addCall.cls.present =>
           \E i \in DOMAIN store :
               /\ store[i].rule_id = addCall.rule.rule_id
               /\ store[i].priority = C36_Bucket(addCall.cls.priority)
    /\ \A n \in DOMAIN addResults :
           addResults[n].kind = "returned" =>
               \E i \in DOMAIN store : store[i] = addResults[n].rule

\* the synthesizer returned exactly a threshold and the rule is stored
C36_Witness ==
    /\ addCall.pc = "register"
    /\ addCall.cls.present
    /\ addCall.cls.priority = 70
    /\ \E i \in DOMAIN store : store[i].priority = 80

\* ------------------------------------------------------------------------
\* OpenAIAdapter.post (adapters/openai.py) under the evaluate() of an API
\* layer that makes one request
\* ------------------------------------------------------------------------

\* stop_after_attempt(5)
MaxAttempts == 5

\* retry_if_exception_type((httpx.TimeoutException, httpx.ReadError))
RetriedErrors == {"TimeoutException", "ReadError"}

\* how one attempt can go: client.post raises a transport error, or the
\* response has a status below 400 and a JSON body, a status 4xx, a status
\* 5xx, or a body that is not JSON
AttemptOutcomes ==
    {"ok", "TimeoutException", "ReadError", "ConnectError", "status_4xx", "status_5xx",
     "bad_json"}

\* the exception that leaves the body of `with attempt`
AttemptError(outcome) ==
    IF outcome = "status_5xx" THEN "HTTPStatusError"
    ELSE IF outcome = "status_4xx" THEN "OpenAIAdapterError"
    ELSE IF outcome = "bad_json" THEN "JSONDecodeError"
    ELSE outcome

\* post() after the attempts made so far, the last one just over: it returns
\* the data, sleeps to try again, or raises; when the attempts are used up
\* AsyncRetrying (reraise not set) raises tenacity.RetryError
PostAfter(attempts) ==
    LET last == attempts[Len(attempts)]
    IN  IF last = "ok" THEN [kind |-> "returned"]
        ELSE IF AttemptError(last) \in RetriedErrors
             THEN IF Len(attempts) >= MaxAttempts
                  THEN [kind |-> "raised", error |-> "RetryError"]
                  ELSE [kind |-> "retry"]
             ELSE [kind |-> "raised", error |-> AttemptError(last)]

\* the except clause around the adapter call in OmniModerationLayer._invoke
\* and ChatGPTLayer.evaluate
CatchesAdapterCall(layer_type, error) ==
    layer_type \in {"omni", "chatgpt"} /\ error = "OpenAIAdapterError"

\* evaluate() of an API layer up to the first attempt of its request
EvaluateCallsPost(layer_type) ==
    /\ layerCall = NoCall
    /\ layerCall' = [pc |-> "post", layer |-> layer_type, attempts |-> << >>]
    /\ UNCHANGED <<pipeGiven, pipeLayers, pm, invoked, returned, pb>>
    /\ UNCHANGED notPipe

\* one attempt is over: post() tries again, or it ends and evaluate() goes on
\* to its return: a verdict or None from the data, None for an error it
\* catches, the exception for one it does not
PostAttempt(outcome) ==
    /\ layerCall.pc = "post"
    /\ LET attempts == Append(layerCall.attempts, outcome)
           post == PostAfter(attempts)
           call == [layer |-> layerCall.layer, attempts |-> attempts, post |-> post]
       IN  IF post.kind = "retry"
           THEN layerCall' = [layerCall EXCEPT !.attempts = attempts]
           ELSE IF post.kind = "returned"
           THEN \E verdict \in LayerVerdicts(layerCall.layer) :
                    layerCall' = [pc |-> "returned", verdict |-> verdict] @@ call
           ELSE IF CatchesAdapterCall(layerCall.layer, post.error)
           THEN layerCall' = [pc |-> "returned", verdict |-> NoVerdict] @@ call
           ELSE layerCall' = [pc |-> "raised", error |-> post.error] @@ call
    /\ UNCHANGED <<pipeGiven, pipeLayers, pm, invoked, returned, pb>>
    /\ UNCHANGED notPipe

InitAdapter ==
    /\ RulesStart
    /\ callerInput = {}
    /\ BatcherStart
    /\ PipeIdle
    /\ SchedStart
    /\ AggIdle

NextAdapter ==
    \/ \E layer_type \in {"omni", "chatgpt"} : EvaluateCallsPost(layer_type)
    \/ \E outcome \in AttemptOutcomes : PostAttempt(outcome)

SpecAdapter == InitAdapter /\ [][NextAdapter]_vars

\* ------------------------------------------------------------------------
\* C37
\* ------------------------------------------------------------------------

\* post() is over
C37_PostOver == layerCall.pc \in {"returned", "raised"}

\* the outcome of the last attempt post() made
C37_LastAttempt == layerCall.attempts[Len(layerCall.attempts)]

\* C37: the adapter's post() retries a request that fails with a transient
\* transport error (timeout, read error) or with HTTP 5xx, making at most 5
\* attempts in total; an HTTP 4xx response is not retried and raises the
\* adapter error on the first attempt.
C37_RetriesTransientAnd5xx ==
    /\ layerCall.pc = "post" => Len(layerCall.attempts) < 5
    /\ C37_PostOver =>
           /\ Len(layerCall.attempts) <= 5
           /\ C37_LastAttempt \in {"TimeoutException", "ReadError", "status_5xx"}
                  => Len(layerCall.attempts) = 5
           /\ C37_LastAttempt = "status_4xx"
                  => layerCall.post = [kind |-> "raised", error |-> "OpenAIAdapterError"]

\* what does hold: timeouts and read errors are retried up to 5 attempts, a
\* 4xx raises the adapter error at once, and a 5xx raises httpx's
\* HTTPStatusError at once
C37_RetriesTransientOnly ==
    /\ layerCall.pc = "post" =>
           /\ Len(layerCall.attempts) < 5
           /\ \A n \in DOMAIN layerCall.attempts :
                  layerCall.attempts[n] \in {"TimeoutException", "ReadError"}
    /\ C37_PostOver =>
           /\ Len(layerCall.attempts) <= 5
           /\ \A n \in 1..(Len(layerCall.attempts) - 1) :
                  layerCall.attempts[n] \in {"TimeoutException", "ReadError"}
           /\ C37_LastAttempt \in {"TimeoutException", "ReadError"}
                  => Len(layerCall.attempts) = 5
           /\ C37_LastAttempt = "status_4xx"
                  => layerCall.post = [kind |-> "raised", error |-> "OpenAIAdapterError"]
           /\ C37_LastAttempt = "status_5xx"
                  => layerCall.post = [kind |-> "raised", error |-> "HTTPStatusError"]

\* ------------------------------------------------------------------------
\* C38
\* ------------------------------------------------------------------------

\* C38: every failure of the adapter's post() reaches its caller as an
\* adapter error: transient transport errors become an adapter error when the
\* attempts are exhausted, and the Category and Contextual layers turn that
\* adapter error into a null verdict for that evaluation.
C38_FailuresAreAdapterErrors ==
    C37_PostOver /\ layerCall.post.kind = "raised" =>
        /\ layerCall.post.error = "OpenAIAdapterError"
        /\ layerCall.pc = "returned"
        /\ layerCall.verdict = NoVerdict

\* the same of the exhausted attempts alone
C38_ExhaustionIsAdapterError ==
    C37_PostOver /\ Len(layerCall.attempts) = 5
                 /\ C37_LastAttempt \in {"TimeoutException", "ReadError"} =>
        /\ layerCall.post.error = "OpenAIAdapterError"
        /\ layerCall.pc = "returned"

\* what does hold: an adapter error, which only a 4xx gives, becomes a null
\* verdict in both layers
C38_AdapterErrorAbsorbed ==
    C37_PostOver /\ layerCall.post.kind = "raised" =>
        IF layerCall.post.error = "OpenAIAdapterError"
        THEN /\ C37_LastAttempt = "status_4xx"
             /\ layerCall.pc = "returned"
             /\ layerCall.verdict = NoVerdict
        ELSE layerCall.pc = "raised" /\ layerCall.error = layerCall.post.error

\* ------------------------------------------------------------------------
\* A layer's evaluate() while rules are added, removed and reloaded
\* ------------------------------------------------------------------------

\* the ModerationVerdict a layer builds from the rule that fired
RuleVerdict(layer_type, rule) ==
    ModerationVerdict(layer_type, rule.rule_id, rule.priority, rule.action, TRUE)

\* evaluate() up to its first await after get_rules_for_layer: the rules of
\* the layer for the message's chat are read once
EvaluateBegin(layer_type, chat_id) ==
    /\ layerCall.pc \in {"none", "returned"}
    /\ layerCall' = [pc |-> "rules", layer |-> layer_type, chat_id |-> chat_id,
                     rules |-> GetRulesForLayer(registry, layer_type, chat_id)]
    /\ UNCHANGED <<pipeGiven, pipeLayers, pm, invoked, returned, pb>>
    /\ UNCHANGED notPipe

\* evaluate() returns: None, or the verdict of one of the rules it read (the
\* rule whose pattern matched, _select_rule's or _resolve_rule's choice)
EvaluateReturn ==
    /\ layerCall.pc = "rules"
    /\ \E verdict \in {NoVerdict} \cup
                      {RuleVerdict(layerCall.layer, layerCall.rules[k]) :
                           k \in DOMAIN layerCall.rules} :
           layerCall' = [layerCall EXCEPT !.pc = "returned"] @@ [verdict |-> verdict]
    /\ UNCHANGED <<pipeGiven, pipeLayers, pm, invoked, returned, pb>>
    /\ UNCHANGED notPipe

\* the add_rule calls made while the layers evaluate
EvalWorkload ==
    {ov \in RuleWorkload : ov.layer = "regex"}

InitEvalRules ==
    /\ RulesStart
    /\ callerInput = EvalWorkload
    /\ BatcherStart
    /\ PipeIdle
    /\ SchedStart
    /\ AggIdle

NextEvalRules ==
    \/ \E ov \in EvalWorkload : AddBegin(ov)
    \/ \E cls \in RuleWorkloadSynth : AddSynthReturn(cls)
    \/ AddSynthFail
    \/ AddUpsert
    \/ AddRegister
    \/ \E id \in KnownRuleIds : RemoveDelete(id)
    \/ RemoveRegistry
    \/ BootList
    \/ BootSeed
    \/ \E layer_type \in {"regex", "omni"}, chat_id \in Chats : EvaluateBegin(layer_type, chat_id)
    \/ EvaluateReturn

SpecEvalRules == InitEvalRules /\ [][NextEvalRules]_vars

\* ------------------------------------------------------------------------
\* C39
\* ------------------------------------------------------------------------

\* a step in which an evaluation begins: it reads the rules that can fire
C39_Begins == layerCall'.pc = "rules" /\ layerCall.pc # "rules"

\* a step in which an evaluation returns a verdict
C39_Fires ==
    layerCall.pc = "rules" /\ layerCall'.pc = "returned" /\ layerCall'.verdict # NoVerdict

\* the verdict returned cites one of the rules the evaluation read, and the
\* rules read are of the layer and of no other chat than the message's
C39_CitesRuleInScope ==
    /\ C39_Fires =>
           \E k \in DOMAIN layerCall.rules :
               /\ layerCall'.verdict.rule_code = layerCall.rules[k].rule_id
               /\ layerCall'.verdict.layer = layerCall.rules[k].layer
    /\ C39_Begins =>
           \A k \in DOMAIN layerCall'.rules :
               /\ layerCall'.rules[k].layer = layerCall'.layer
               /\ layerCall'.rules[k].chat_id \in {Null, layerCall'.chat_id}
               /\ \E n \in DOMAIN regLog : regLog[n] = layerCall'.rules[k]

\* an evaluation begun after remove_rule for a rule is over does not read it
C39_NotRemoved ==
    C39_Begins => \A k \in DOMAIN layerCall'.rules : layerCall'.rules[k].rule_id \notin removed

\* C39: every verdict a layer returns for a message cites a rule of that same
\* layer whose chat_id is null or the message's chat_id and which the
\* registry held during that evaluation: a rule scoped to another chat never
\* fires, and a rule never fires in an evaluation begun after remove_rule for
\* it completed.
C39_FiresOnlyLiveRulesInScope == [][C39_CitesRuleInScope /\ C39_NotRemoved]_vars

\* what does hold: layer, chat scope and presence in the registry
C39_FiresOnlyRulesInScope == [][C39_CitesRuleInScope]_vars

\* ------------------------------------------------------------------------
\* C40
\* ------------------------------------------------------------------------

\* the i-th evaluate() of the call returned a violated verdict whose action
\* is none
C40_ViolatedNone(i) ==
    /\ returned[i] # NoVerdict
    /\ returned[i].violated
    /\ returned[i].action = "none"

\* the i-th evaluate() of the call returned a verdict that stops the pipeline
C40_Stops(i) ==
    /\ returned[i] # NoVerdict
    /\ returned[i].violated
    /\ returned[i].action # "none"

\* the layers of the pipeline that are not disabled, in pipeline order
C40_Enabled ==
    SelectSeq([k \in DOMAIN pipeLayers |-> pipeLayers[k].layer_type],
              LAMBDA layer_type : layer_type \notin pm.disabled)

\* a result with a verdict: the verdict is violated with an action, and it is
\* what the last layer of evaluated_layers returned
C40_VerdictOfLastLayer ==
    pm.pc = "done" /\ pm.result.verdict # NoVerdict =>
        /\ pm.result.verdict.violated
        /\ pm.result.verdict.action # "none"
        /\ pm.result.evaluated_layers = invoked
        /\ Len(returned) = Len(invoked)
        /\ pm.result.verdict = returned[Len(returned)]
        /\ pm.result.verdict.layer = invoked[Len(invoked)]

\* a violated verdict with action none stops nothing: the layer after it is
\* called when there is one, and the verdict is not the result's
C40_NoneDoesNotStop ==
    pm.pc \in {"eval", "done"} =>
        \A i \in DOMAIN returned :
            C40_ViolatedNone(i) =>
                /\ i < Len(C40_Enabled) => Len(invoked) > i /\ invoked[i + 1] = C40_Enabled[i + 1]
                /\ pm.pc = "done" /\ i = Len(returned) => pm.result.verdict = NoVerdict

\* when no verdict stopped the pipeline the result is clean: every enabled
\* layer ran, no incident row is built for it and decide gives no decision
C40_CleanWithoutStop ==
    pm.pc = "done" /\ (\A i \in DOMAIN returned : ~C40_Stops(i)) =>
        /\ pm.result.verdict = NoVerdict
        /\ invoked = C40_Enabled
        /\ IncidentRows(<<pm.result>>) = << >>
        /\ Decide(<<pm.result>>) = NoDecision

\* C40: every ModerationResult with a non-null verdict has
\* verdict.violated=true and an action other than none, and that verdict was
\* produced by the last layer of evaluated_layers; a violated verdict whose
\* action is none does not stop the pipeline and is discarded, so the
\* following layers still run and, if none short-circuits, the result is
\* clean and yields neither an incident nor a decision.
C40_OnlyActionableVerdicts ==
    C40_VerdictOfLastLayer /\ C40_NoneDoesNotStop /\ C40_CleanWithoutStop

\* the first layer returned a violated verdict with action none, the second
\* layer ran and the result is clean
C40_Witness ==
    /\ pm.pc = "done"
    /\ Len(returned) >= 2
    /\ C40_ViolatedNone(1)
    /\ \A i \in DOMAIN returned : ~C40_Stops(i)
    /\ pm.result.verdict = NoVerdict

====
